---- MODULE Spec2Model ----
(***************************************************************************)
(* Model of lsst.ts.atpneumaticssimulator.PneumaticsSimulator: the command *)
(* and event channel of the ATPneumatics simulator (specification Spec)    *)
(* and its telemetry channel (specification TelSpec), configure called on  *)
(* it directly (ConfigSpec), its timed handlers with a clock (ClockSpec,   *)
(* and TimedSpec with a caller of configure; TimedFairSpec adds that time  *)
(* passes and sleeps end), the cover, vent and telemetry tasks of          *)
(* ATPneumaticsCsc (CscSpec), and the simulator and the CSC side by side   *)
(* on the same commands (PairSpec).                                        *)
(*                                                                         *)
(* The simulator object is the record `sim` (one field per attribute set   *)
(* in __init__).  Everything the simulator writes to the command/event     *)
(* client is appended to `cmd_evt_written`, and stays there until the      *)
(* client reads it; the client reads the messages of an exchange when the  *)
(* exchange is over, so `cmd_evt_written` holds the messages of the        *)
(* exchange in progress or just ended, and `data` the payload that         *)
(* started it.                                                             *)
(*                                                                         *)
(* Command handling is one asyncio task: read_and_dispatch awaits the      *)
(* dispatch callback, which awaits the handler.  The only place a handler  *)
(* is suspended for longer than a write is asyncio.sleep in the four cover *)
(* and vent handlers, so a handler is modelled by one step up to the sleep *)
(* (or to its end) and one step from the sleep to its end.                 *)
(***************************************************************************)
EXTENDS Integers, Sequences, FiniteSets, TLC

VARIABLES
    sim,               \* the PneumaticsSimulator object
    cmd_evt_connected, \* cmd_evt_server.connected
    cmd_evt_written,   \* messages written to the cmd/evt client that it has not read
    inbox,             \* payloads the client has written that are not read yet
    pc,                \* where the command task is
    kwargs,            \* keyword arguments of the suspended handler
    data,              \* <<d>>: the payload of the exchange in cmd_evt_written
    client_seq,        \* n: this connection got valid commands 1..n in order; -1: not so
    seq_rejected,      \* this connection had a known command refused for its sequence id
    valid_received,    \* a known, schema-valid command has been read since construction
    tel_connected,     \* telemetry_server.connected
    _telemetry_task,   \* "done" or "running": the task that runs telemetry_loop
    telemetry_loops,   \* number of telemetry_loop tasks of the simulator that are alive
    tel_written,       \* records written to the telemetry client that it has not read
    slept,             \* clock ticks the suspended handler has been in asyncio.sleep
    csc,               \* the ATPneumaticsCsc object
    csc_written,       \* what the last step of the CSC has written
    overtakes          \* command handlers run since a task was cancelled, before it ran

\* The telemetry side of the simulator.
tel_vars == <<tel_connected, _telemetry_task, telemetry_loops, tel_written>>

\* The ATPneumaticsCsc.
csc_vars == <<csc, csc_written, overtakes>>

vars == <<sim, cmd_evt_connected, cmd_evt_written, inbox, pc, kwargs, data, client_seq,
          seq_rejected, valid_received, tel_vars, slept, csc_vars>>

----------------------------------------------------------------------------
(* Bounds. *)

\* Largest sequence id a client uses.
MaxSeq == 3

\* Pressures a client asks for.
Pressures == {5, 35}

\* Largest sequence id a client uses while telemetry is observed.
MaxTelSeq == 4

\* Telemetry ticks whose records the telemetry client may leave unread.
MaxUnreadTicks == 2

----------------------------------------------------------------------------
(* enums.py *)

Ack == [ACK |-> "ack", FAIL |-> "fail", NOACK |-> "noack", SUCCESS |-> "success"]

CommandNames ==
    { "closeInstrumentAirValve", "closeM1CellVents", "closeM1Cover",
      "closeMasterAirSupply", "m1CloseAirValve", "m1OpenAirValve",
      "m1SetPressure", "m2CloseAirValve", "m2OpenAirValve", "m2SetPressure",
      "openInstrumentAirValve", "openM1CellVents", "openM1Cover",
      "openMasterAirSupply" }

\* An identifier is a prefix and a name: "cmd_" + "openM1Cover".
Id(prefix, name) == [prefix |-> prefix, name |-> name]

Command == { Id("cmd_", n) : n \in CommandNames }

Event ==
    [ CELLVENTSTATE        |-> "evt_cellVentsState",
      ESTOP                |-> "evt_eStop",
      INSTRUMENTSTATE      |-> "evt_instrumentState",
      M1COVERLIMITSWITCHES |-> "evt_m1CoverLimitSwitches",
      M1COVERSTATE         |-> "evt_m1CoverState",
      M1SETPRESSURE        |-> "evt_m1SetPressure",
      M1STATE              |-> "evt_m1State",
      M1VENTSLIMITSWITCHES |-> "evt_m1VentsLimitSwitches",
      M1VENTSPOSITION      |-> "evt_m1VentsPosition",
      M2STATE              |-> "evt_m2State",
      M2SETPRESSURE        |-> "evt_m2SetPressure",
      MAINVALVESTATE       |-> "evt_mainValveState",
      POWERSTATUS          |-> "evt_powerStatus" ]

EventIds == { Event[k] : k \in DOMAIN Event }

OpenCloseState == {"CLOSING", "CLOSED", "OPENING", "OPEN"}

TelemetryNames == {"loadCell", "m1AirPressure", "m2AirPressure", "mainAirSourcePressure"}

Telemetry ==
    [ LOAD_CELL                |-> "tel_loadCell",
      M1_AIR_PRESSURE          |-> "tel_m1AirPressure",
      M2_AIR_PRESSURE          |-> "tel_m2AirPressure",
      MAIN_AIR_SOURCE_PRESSURE |-> "tel_mainAirSourcePressure" ]

TelemetryIds == { Telemetry[k] : k \in DOMAIN Telemetry }

----------------------------------------------------------------------------
(* dataclasses.py *)

M1CoverLimitSwitches ==
    [ cover1ClosedActive |-> FALSE, cover2ClosedActive |-> FALSE,
      cover3ClosedActive |-> FALSE, cover4ClosedActive |-> FALSE,
      cover1OpenedActive |-> FALSE, cover2OpenedActive |-> FALSE,
      cover3OpenedActive |-> FALSE, cover4OpenedActive |-> FALSE ]

M1VentsLimitSwitches == [ventsClosedActive |-> FALSE, ventsOpenedActive |-> FALSE]

PowerStatus == [powerOnL1 |-> FALSE, powerOnL2 |-> FALSE, powerOnL3 |-> FALSE]

LoadCell == [cellLoad |-> 0]

M1AirPressure == [pressure |-> 0]

M2AirPressure == [pressure |-> 0]

MainAirSourcePressure == [pressure |-> 0]

----------------------------------------------------------------------------
(* Payloads.  An optional field is <<>> when absent and <<v>> when present. *)

Payload(id, sequence_id, pressure) ==
    [id |-> id, sequence_id |-> sequence_id, pressure |-> pressure]

SeqIds == 0 .. MaxSeq

\* Identifiers that name no command; the last one names a telemetry schema.
OtherIds == { Id("", "non-existing"), Id("evt_", "m1State"), Id("tel_", "loadCell") }

Payloads ==
    { Payload(<<c>>, <<q>>, <<>>) : c \in Command \cup OtherIds, q \in SeqIds }
    \cup { Payload(<<Id("cmd_", n)>>, <<q>>, <<p>>) :
             n \in {"m1SetPressure", "m2SetPressure"}, q \in SeqIds, p \in Pressures }
    \cup { Payload(<<c>>, <<>>, <<>>) :
             c \in {Id("cmd_", "openM1Cover"), Id("", "non-existing")} }
    \cup { Payload(<<>>, <<q>>, <<>>) : q \in SeqIds }
    \cup { Payload(<<>>, <<>>, <<>>) }

\* No exchange: nothing has been read since the client read the last responses.
NoData == <<>>

----------------------------------------------------------------------------
(* schemas/registry.py and the JSON schemas *)

\* The registry holds one schema per command, event and telemetry topic.
registry ==
    { Id("command_", n) : n \in CommandNames }
    \cup { Id("logevent_", n) :
             n \in { "cellVentsState", "eStop", "instrumentState",
                     "m1CoverLimitSwitches", "m1CoverState", "m1SetPressure",
                     "m1State", "m1VentsLimitSwitches", "m1VentsPosition",
                     "m2State", "m2SetPressure", "mainValveState", "powerStatus" } }
    \cup { Id("tel_", n) : n \in TelemetryNames }

\* jsonschema.validate(data, registry[payload_id]): only a command schema
\* accepts a command payload; id (the command the schema is named after) and
\* sequence_id are required, and the set-pressure commands require a
\* pressure.  TRUE when the payload validates.
validate(d, payload_id) ==
    /\ payload_id.prefix = "command_"
    /\ d.id = <<Id("cmd_", payload_id.name)>>
    /\ d.sequence_id # <<>>
    /\ payload_id.name \in {"m1SetPressure", "m2SetPressure"} => d.pressure # <<>>

\* str.replace("cmd_", "command_") on an identifier.
replace(id) == IF id.prefix = "cmd_" THEN Id("command_", id.name) ELSE id

----------------------------------------------------------------------------
(* PneumaticsSimulator.__init__ *)

PneumaticsSimulator ==
    [ telemetry_interval       |-> 1,
      m1_covers_state          |-> "CLOSED",
      m1_vents_state           |-> "CLOSED",
      cell_vents_state         |-> "CLOSED",
      e_stop                   |-> FALSE,
      instrument_state         |-> "CLOSED",
      m1_cover_limit_switches  |-> M1CoverLimitSwitches,
      m1_cover_state           |-> "CLOSED",
      m1_pressure              |-> 0,
      m1_state                 |-> "CLOSED",
      m1_vents_limit_switches  |-> M1VentsLimitSwitches,
      m1_vents_position        |-> "CLOSED",
      m2_cover_state           |-> "CLOSED",
      m2_pressure              |-> 0,
      m2_state                 |-> "CLOSED",
      main_valve_state         |-> "CLOSED",
      power_status             |-> PowerStatus,
      m1_covers_close_time     |-> 0,
      m1_covers_open_time      |-> 0,
      cell_vents_close_time    |-> 0,
      cell_vents_open_time     |-> 0,
      load_cell                |-> LoadCell,
      m1_air_pressure          |-> M1AirPressure,
      m2_air_pressure          |-> M2AirPressure,
      main_air_source_pressure |-> MainAirSourcePressure,
      last_sequence_id         |-> 0 ]

\* The attributes the commands and the connect callback act on: every
\* attribute but the sequence counter.
DeviceState(s) == [s EXCEPT !.last_sequence_id = 0]

----------------------------------------------------------------------------
(* Writing to the command/event client.  A simulator state with its output *)
(* is the record [self |-> the object, out |-> the messages written].      *)

World(self, out) == [self |-> self, out |-> out]

write_json(w, msg) == [w EXCEPT !.out = Append(@, msg)]

write_response(w, response, sequence_id) ==
    write_json(w, [id |-> response, sequence_id |-> sequence_id])

write_ack_response(w, sequence_id) == write_response(w, Ack.ACK, sequence_id)

write_fail_response(w, sequence_id) == write_response(w, Ack.FAIL, sequence_id)

write_noack_response(w, sequence_id) == write_response(w, Ack.NOACK, sequence_id)

write_success_response(w, sequence_id) == write_response(w, Ack.SUCCESS, sequence_id)

\* _write_evt(evt_id, **kwargs): the message is the id and the keyword arguments.
_write_evt(w, evt) == write_json(w, evt)

----------------------------------------------------------------------------
(* set_cell_vents_events and set_m1_cover_events *)

\* set_cell_vents_events writing cellVentsState once when the vents move.
set_cell_vents_events_single_inmotion(w, closed, opened) ==
    LET w2 == _write_evt(
                  [w EXCEPT !.self.m1_vents_limit_switches =
                      [ventsClosedActive |-> closed, ventsOpenedActive |-> opened]],
                  [id |-> Event.M1VENTSLIMITSWITCHES,
                   ventsClosedActive |-> closed, ventsOpenedActive |-> opened])
        position == IF opened THEN "OPENED"
                    ELSE IF closed THEN "CLOSED" ELSE "PARTIALLYOPENED"
        w3 == _write_evt([w2 EXCEPT !.self.m1_vents_position = position],
                         [id |-> Event.M1VENTSPOSITION, position |-> position])
        state == IF opened THEN "OPENED"
                 ELSE IF closed THEN "CLOSED" ELSE "INMOTION"
    IN  _write_evt([w3 EXCEPT !.self.cell_vents_state = state],
                   [id |-> Event.CELLVENTSTATE, state |-> state])

set_cell_vents_events(w, closed, opened) ==
    LET w1 == IF ~(closed \/ opened)
              THEN _write_evt([w EXCEPT !.self.cell_vents_state = "INMOTION"],
                              [id |-> Event.CELLVENTSTATE, state |-> "INMOTION"])
              ELSE w
        w2 == _write_evt(
                  [w1 EXCEPT !.self.m1_vents_limit_switches =
                      [ventsClosedActive |-> closed, ventsOpenedActive |-> opened]],
                  [id |-> Event.M1VENTSLIMITSWITCHES,
                   ventsClosedActive |-> closed, ventsOpenedActive |-> opened])
        position == IF opened THEN "OPENED"
                    ELSE IF closed THEN "CLOSED" ELSE "PARTIALLYOPENED"
        w3 == _write_evt([w2 EXCEPT !.self.m1_vents_position = position],
                         [id |-> Event.M1VENTSPOSITION, position |-> position])
        state == IF opened THEN "OPENED"
                 ELSE IF closed THEN "CLOSED" ELSE w3.self.cell_vents_state
    IN  _write_evt([w3 EXCEPT !.self.cell_vents_state = state],
                   [id |-> Event.CELLVENTSTATE, state |-> state])

\* set_m1_cover_events writing m1CoverState before m1CoverLimitSwitches.
set_m1_cover_events_state_first(w, closed, opened) ==
    LET switches ==
            [ cover1ClosedActive |-> closed, cover2ClosedActive |-> closed,
              cover3ClosedActive |-> closed, cover4ClosedActive |-> closed,
              cover1OpenedActive |-> opened, cover2OpenedActive |-> opened,
              cover3OpenedActive |-> opened, cover4OpenedActive |-> opened ]
        state == IF opened /\ closed THEN "INVALID"
                 ELSE IF opened THEN "OPENED"
                 ELSE IF closed THEN "CLOSED" ELSE "INMOTION"
        w1 == _write_evt([w EXCEPT !.self.m1_cover_state = state],
                         [id |-> Event.M1COVERSTATE, state |-> state])
    IN  _write_evt([w1 EXCEPT !.self.m1_cover_limit_switches = switches],
                   [id |-> Event.M1COVERLIMITSWITCHES] @@ switches)

set_m1_cover_events(w, closed, opened) ==
    LET switches ==
            [ cover1ClosedActive |-> closed, cover2ClosedActive |-> closed,
              cover3ClosedActive |-> closed, cover4ClosedActive |-> closed,
              cover1OpenedActive |-> opened, cover2OpenedActive |-> opened,
              cover3OpenedActive |-> opened, cover4OpenedActive |-> opened ]
        w1 == _write_evt([w EXCEPT !.self.m1_cover_limit_switches = switches],
                         [id |-> Event.M1COVERLIMITSWITCHES] @@ switches)
        state == IF opened /\ closed THEN "INVALID"
                 ELSE IF opened THEN "OPENED"
                 ELSE IF closed THEN "CLOSED" ELSE "INMOTION"
    IN  _write_evt([w1 EXCEPT !.self.m1_cover_state = state],
                   [id |-> Event.M1COVERSTATE, state |-> state])

----------------------------------------------------------------------------
(* configure and initialize *)

\* Defaults of configure().
DEFAULT_M1_COVERS_CLOSE_TIME == 20
DEFAULT_M1_COVERS_OPEN_TIME == 20
DEFAULT_CELL_VENTS_CLOSE_TIME == 5
DEFAULT_CELL_VENTS_OPEN_TIME == 1
DEFAULT_M1_PRESSURE == 5
DEFAULT_M2_PRESSURE == 6
DEFAULT_MAIN_PRESSURE == 10
DEFAULT_CELL_LOAD == 100

\* The assertions of configure(): the open time of the covers is not among
\* them, the close time is asserted twice.
configure_asserts(m1_covers_close_time, m1_covers_open_time, cell_vents_close_time, cell_vents_open_time, m1_pressure, m2_pressure, main_pressure, cell_load) ==
    /\ m1_covers_close_time >= 0
    /\ m1_covers_close_time >= 0
    /\ cell_vents_close_time >= 0
    /\ cell_vents_open_time >= 0
    /\ m1_pressure > 0
    /\ m2_pressure > 0
    /\ main_pressure > 0
    /\ cell_load > 0

configure(w, m1_covers_close_time, m1_covers_open_time, cell_vents_close_time, cell_vents_open_time, m1_pressure, m2_pressure, main_pressure, cell_load) ==
    IF ~configure_asserts(m1_covers_close_time, m1_covers_open_time,
                          cell_vents_close_time, cell_vents_open_time,
                          m1_pressure, m2_pressure, main_pressure, cell_load)
    THEN w  \* AssertionError before anything is assigned
    ELSE
    LET w1 == [w EXCEPT !.self.m1_pressure = m1_pressure,
                        !.self.m2_pressure = m2_pressure]
        w2 == _write_evt(w1, [id |-> Event.M1SETPRESSURE, pressure |-> m1_pressure])
        w3 == _write_evt(w2, [id |-> Event.M2SETPRESSURE, pressure |-> m2_pressure])
    IN  [w3 EXCEPT !.self.m1_covers_close_time = m1_covers_close_time,
                   !.self.m1_covers_open_time = m1_covers_open_time,
                   !.self.cell_vents_close_time = cell_vents_close_time,
                   !.self.cell_vents_open_time = cell_vents_open_time,
                   !.self.main_air_source_pressure.pressure = main_pressure,
                   !.self.load_cell.cellLoad = cell_load]

\* initialize leaving the covers as they are.
initialize_covers_untouched(w) ==
    LET w1 == _write_evt([w EXCEPT !.self.e_stop = FALSE],
                         [id |-> Event.ESTOP, triggered |-> FALSE])
        w3 == set_cell_vents_events(w1, TRUE, FALSE)
        w4 == _write_evt([w3 EXCEPT !.self.instrument_state = "OPENED"],
                         [id |-> Event.INSTRUMENTSTATE, state |-> "OPENED"])
        w5 == _write_evt([w4 EXCEPT !.self.m1_state = "OPENED"],
                         [id |-> Event.M1STATE, state |-> "OPENED"])
        w6 == _write_evt([w5 EXCEPT !.self.m2_state = "OPENED"],
                         [id |-> Event.M2STATE, state |-> "OPENED"])
        w7 == _write_evt([w6 EXCEPT !.self.main_valve_state = "OPENED"],
                         [id |-> Event.MAINVALVESTATE, state |-> "OPENED"])
        power == [powerOnL1 |-> TRUE, powerOnL2 |-> TRUE, powerOnL3 |-> TRUE]
    IN  _write_evt([w7 EXCEPT !.self.power_status = power],
                   [id |-> Event.POWERSTATUS] @@ power)

initialize(w) ==
    LET w1 == _write_evt([w EXCEPT !.self.e_stop = FALSE],
                         [id |-> Event.ESTOP, triggered |-> FALSE])
        w2 == set_cell_vents_events(w1, TRUE, FALSE)
        w3 == set_m1_cover_events(w2, TRUE, FALSE)
        w4 == _write_evt([w3 EXCEPT !.self.instrument_state = "OPENED"],
                         [id |-> Event.INSTRUMENTSTATE, state |-> "OPENED"])
        w5 == _write_evt([w4 EXCEPT !.self.m1_state = "OPENED"],
                         [id |-> Event.M1STATE, state |-> "OPENED"])
        w6 == _write_evt([w5 EXCEPT !.self.m2_state = "OPENED"],
                         [id |-> Event.M2STATE, state |-> "OPENED"])
        w7 == _write_evt([w6 EXCEPT !.self.main_valve_state = "OPENED"],
                         [id |-> Event.MAINVALVESTATE, state |-> "OPENED"])
        power == [powerOnL1 |-> TRUE, powerOnL2 |-> TRUE, powerOnL3 |-> TRUE]
    IN  _write_evt([w7 EXCEPT !.self.power_status = power],
                   [id |-> Event.POWERSTATUS] @@ power)

----------------------------------------------------------------------------
(* The command handlers.  A handler returns the state it leaves and where *)
(* it is: "done" when it has returned, or the sleep it is suspended in.   *)

Done(w) == [w |-> w, at |-> "done"]

Sleeping(w, at) == [w |-> w, at |-> at]

do_close_instrument_air_valve(w, sequence_id) ==
    LET w1 == [w EXCEPT !.self.instrument_state = "CLOSED"]
        w2 == _write_evt(w1, [id |-> Event.INSTRUMENTSTATE,
                              state |-> w1.self.instrument_state])
    IN  Done(write_success_response(w2, sequence_id))

\* do_close_m1_cell_vents from the sleep to its end.
close_m1_cell_vents_settle(w, sequence_id) ==
    LET w1 == set_cell_vents_events(w, TRUE, FALSE)
        w2 == [w1 EXCEPT !.self.m1_vents_state = "CLOSED"]
    IN  Done(write_success_response(w2, sequence_id))

\* do_close_m1_cell_vents moving the vents whatever position they report.
do_close_m1_cell_vents_always_moves(w, sequence_id) ==
    IF w.self.m1_vents_state \notin {"CLOSING", "CLOSED"}
    THEN LET w1 == [w EXCEPT !.self.m1_vents_state = "CLOSING"]
         IN  Sleeping(set_cell_vents_events(w1, FALSE, FALSE),
                      "close_m1_cell_vents_sleep")
    ELSE Done(write_success_response(w, sequence_id))

do_close_m1_cell_vents(w, sequence_id) ==
    IF w.self.m1_vents_state \notin {"CLOSING", "CLOSED"}
    THEN LET w1 == [w EXCEPT !.self.m1_vents_state = "CLOSING"]
         IN  IF w1.self.m1_vents_position # "CLOSED"
             THEN Sleeping(set_cell_vents_events(w1, FALSE, FALSE),
                           "close_m1_cell_vents_sleep")
             ELSE close_m1_cell_vents_settle(w1, sequence_id)
    ELSE Done(write_success_response(w, sequence_id))

\* close_m1_cover_settle answering SUCCESS before the settled events.
close_m1_cover_settle_success_first(w, sequence_id) ==
    LET w1 == write_success_response(w, sequence_id)
        w2 == set_m1_cover_events(w1, TRUE, FALSE)
    IN  Done([w2 EXCEPT !.self.m1_covers_state = "CLOSED"])

\* do_close_m1_cover from the sleep to its end.
close_m1_cover_settle(w, sequence_id) ==
    LET w1 == set_m1_cover_events(w, TRUE, FALSE)
        w2 == [w1 EXCEPT !.self.m1_covers_state = "CLOSED"]
    IN  Done(write_success_response(w2, sequence_id))

\* do_close_m1_cover taking only CLOSING for "nothing to do".
do_close_m1_cover_closing_only(w, sequence_id) ==
    IF w.self.m1_covers_state \notin {"CLOSING"}
    THEN LET w1 == [w EXCEPT !.self.m1_covers_state = "CLOSING"]
         IN  IF w1.self.m1_cover_state # "CLOSED"
             THEN Sleeping(set_m1_cover_events(w1, FALSE, FALSE),
                           "close_m1_cover_sleep")
             ELSE close_m1_cover_settle(w1, sequence_id)
    ELSE Done(write_success_response(w, sequence_id))

do_close_m1_cover(w, sequence_id) ==
    IF w.self.m1_covers_state \notin {"CLOSING", "CLOSED"}
    THEN LET w1 == [w EXCEPT !.self.m1_covers_state = "CLOSING"]
         IN  IF w1.self.m1_cover_state # "CLOSED"
             THEN Sleeping(set_m1_cover_events(w1, FALSE, FALSE),
                           "close_m1_cover_sleep")
             ELSE close_m1_cover_settle(w1, sequence_id)
    ELSE Done(write_success_response(w, sequence_id))

do_close_master_air_supply(w, sequence_id) ==
    LET w1 == [w EXCEPT !.self.main_valve_state = "CLOSED"]
        w2 == _write_evt(w1, [id |-> Event.MAINVALVESTATE,
                              state |-> w1.self.main_valve_state])
    IN  Done(write_success_response(w2, sequence_id))

\* do_m1_close_air_valve writing the event before it sets the state.
do_m1_close_air_valve_event_first(w, sequence_id) ==
    LET w1 == _write_evt(w, [id |-> Event.M1STATE, state |-> w.self.m1_state])
        w2 == [w1 EXCEPT !.self.m1_state = "CLOSED"]
    IN  Done(write_success_response(w2, sequence_id))

do_m1_close_air_valve(w, sequence_id) ==
    LET w1 == [w EXCEPT !.self.m1_state = "CLOSED"]
        w2 == _write_evt(w1, [id |-> Event.M1STATE, state |-> w1.self.m1_state])
    IN  Done(write_success_response(w2, sequence_id))

do_m1_open_air_valve(w, sequence_id) ==
    LET w1 == [w EXCEPT !.self.m1_state = "OPENED"]
        w2 == _write_evt(w1, [id |-> Event.M1STATE, state |-> w1.self.m1_state])
    IN  Done(write_success_response(w2, sequence_id))

do_m1_set_pressure(w, sequence_id, pressure) ==
    LET w1 == [w EXCEPT !.self.m1_pressure = pressure]
        w2 == _write_evt(w1, [id |-> Event.M1SETPRESSURE,
                              pressure |-> w1.self.m1_pressure])
    IN  Done(write_success_response(w2, sequence_id))

do_m2_close_air_valve(w, sequence_id) ==
    LET w1 == [w EXCEPT !.self.m2_state = "CLOSED"]
        w2 == _write_evt(w1, [id |-> Event.M2STATE, state |-> w1.self.m2_state])
    IN  Done(write_success_response(w2, sequence_id))

\* do_m2_open_air_valve opening the M1 valve as well.
do_m2_open_air_valve_opens_m1(w, sequence_id) ==
    LET w1 == [w EXCEPT !.self.m2_state = "OPENED", !.self.m1_state = "OPENED"]
        w2 == _write_evt(w1, [id |-> Event.M2STATE, state |-> w1.self.m2_state])
    IN  Done(write_success_response(w2, sequence_id))

do_m2_open_air_valve(w, sequence_id) ==
    LET w1 == [w EXCEPT !.self.m2_state = "OPENED"]
        w2 == _write_evt(w1, [id |-> Event.M2STATE, state |-> w1.self.m2_state])
    IN  Done(write_success_response(w2, sequence_id))

do_m2_set_pressure(w, sequence_id, pressure) ==
    LET w1 == [w EXCEPT !.self.m2_pressure = pressure]
        w2 == _write_evt(w1, [id |-> Event.M2SETPRESSURE,
                              pressure |-> w1.self.m2_pressure])
    IN  Done(write_success_response(w2, sequence_id))

do_open_instrument_air_valve(w, sequence_id) ==
    LET w1 == [w EXCEPT !.self.instrument_state = "OPENED"]
        w2 == _write_evt(w1, [id |-> Event.INSTRUMENTSTATE,
                              state |-> w1.self.instrument_state])
    IN  Done(write_success_response(w2, sequence_id))

\* do_open_m1_cell_vents from the sleep to its end.
open_m1_cell_vents_settle(w, sequence_id) ==
    LET w1 == set_cell_vents_events(w, FALSE, TRUE)
        w2 == [w1 EXCEPT !.self.m1_vents_state = "OPEN"]
    IN  Done(write_success_response(w2, sequence_id))

do_open_m1_cell_vents(w, sequence_id) ==
    IF w.self.m1_vents_state \notin {"OPENING", "OPEN"}
    THEN LET w1 == [w EXCEPT !.self.m1_vents_state = "OPENING"]
         IN  IF w1.self.m1_vents_position # "OPENED"
             THEN Sleeping(set_cell_vents_events(w1, FALSE, FALSE),
                           "open_m1_cell_vents_sleep")
             ELSE open_m1_cell_vents_settle(w1, sequence_id)
    ELSE Done(write_success_response(w, sequence_id))

\* do_open_m1_cover leaving m1_covers_state as it is after the sleep.
open_m1_cover_settle_still_opening(w, sequence_id) ==
    LET w1 == set_m1_cover_events(w, FALSE, TRUE)
    IN  Done(write_success_response(w1, sequence_id))

\* do_open_m1_cover from the sleep to its end.
open_m1_cover_settle(w, sequence_id) ==
    LET w1 == set_m1_cover_events(w, FALSE, TRUE)
        w2 == [w1 EXCEPT !.self.m1_covers_state = "OPEN"]
    IN  Done(write_success_response(w2, sequence_id))

\* do_open_m1_cover going straight to the settled events when there is no
\* time to wait.
do_open_m1_cover_zero_time_not_moving(w, sequence_id) ==
    IF w.self.m1_covers_state \notin {"OPENING", "OPEN"}
    THEN LET w1 == [w EXCEPT !.self.m1_covers_state = "OPENING"]
         IN  IF w1.self.m1_cover_state # "OPENED" /\ w1.self.m1_covers_open_time # 0
             THEN Sleeping(set_m1_cover_events(w1, FALSE, FALSE),
                           "open_m1_cover_sleep")
             ELSE open_m1_cover_settle(w1, sequence_id)
    ELSE Done(write_success_response(w, sequence_id))

do_open_m1_cover(w, sequence_id) ==
    IF w.self.m1_covers_state \notin {"OPENING", "OPEN"}
    THEN LET w1 == [w EXCEPT !.self.m1_covers_state = "OPENING"]
         IN  IF w1.self.m1_cover_state # "OPENED"
             THEN Sleeping(set_m1_cover_events(w1, FALSE, FALSE),
                           "open_m1_cover_sleep")
             ELSE open_m1_cover_settle(w1, sequence_id)
    ELSE Done(write_success_response(w, sequence_id))

\* do_open_master_air_supply answering FAIL after it has done its work.
do_open_master_air_supply_fail_response(w, sequence_id) ==
    LET w1 == [w EXCEPT !.self.main_valve_state = "OPENED"]
        w2 == _write_evt(w1, [id |-> Event.MAINVALVESTATE,
                              state |-> w1.self.main_valve_state])
    IN  Done(write_fail_response(w2, sequence_id))

do_open_master_air_supply(w, sequence_id) ==
    LET w1 == [w EXCEPT !.self.main_valve_state = "OPENED"]
        w2 == _write_evt(w1, [id |-> Event.MAINVALVESTATE,
                              state |-> w1.self.main_valve_state])
    IN  Done(write_success_response(w2, sequence_id))

----------------------------------------------------------------------------
(* verify_data and cmd_evt_dispatch_callback *)

\* verify_data refusing only the sequence ids that do not advance.
verify_data_gap_accepted(w, d) ==
    IF d.id = <<>> \/ d.sequence_id = <<>>
    THEN [data_ok |-> FALSE, w |-> w]
    ELSE LET payload_id == replace(d.id[1])
         IN  IF payload_id \notin registry
             THEN [data_ok |-> FALSE, w |-> w]
             ELSE LET sequence_id == d.sequence_id[1]
                  IN  IF sequence_id - w.self.last_sequence_id < 1
                      THEN [data_ok |-> FALSE, w |-> w]
                      ELSE LET w1 == [w EXCEPT !.self.last_sequence_id = sequence_id]
                           IN  [data_ok |-> validate(d, payload_id), w |-> w1]

\* verify_data without the look-up of the id in the registry.
verify_data_no_registry_check(w, d) ==
    IF d.id = <<>> \/ d.sequence_id = <<>>
    THEN [data_ok |-> FALSE, w |-> w]
    ELSE LET sequence_id == d.sequence_id[1]
         IN  IF sequence_id - w.self.last_sequence_id # 1
             THEN [data_ok |-> FALSE, w |-> w]
             ELSE LET w1 == [w EXCEPT !.self.last_sequence_id = sequence_id]
                  IN  [data_ok |-> validate(d, replace(d.id[1])), w |-> w1]

\* The result of verify_data: the value it returns and the state it leaves.
verify_data(w, d) ==
    IF d.id = <<>> \/ d.sequence_id = <<>>
    THEN [data_ok |-> FALSE, w |-> w]
    ELSE LET payload_id == replace(d.id[1])
         IN  IF payload_id \notin registry
             THEN [data_ok |-> FALSE, w |-> w]
             ELSE LET sequence_id == d.sequence_id[1]
                  IN  IF sequence_id - w.self.last_sequence_id # 1
                      THEN [data_ok |-> FALSE, w |-> w]
                      ELSE LET w1 == [w EXCEPT !.self.last_sequence_id = sequence_id]
                           IN  [data_ok |-> validate(d, payload_id), w |-> w1]

\* kwargs of the handler call: the items of the payload but the id.
HandlerKwargs(d) == [sequence_id |-> d.sequence_id, pressure |-> d.pressure]

NoKwargs == [sequence_id |-> <<>>, pressure |-> <<>>]

\* An exception left the callback.
Raised(w) == [w |-> w, at |-> "raised"]

\* func = self.dispatch_dict[cmd]; await func(**kwargs)
dispatch_dict(cmd, w, kw) ==
    LET sequence_id == kw.sequence_id[1]
    IN  CASE cmd.name = "closeInstrumentAirValve" -> do_close_instrument_air_valve(w, sequence_id)
          [] cmd.name = "closeM1CellVents" -> do_close_m1_cell_vents(w, sequence_id)
          [] cmd.name = "closeM1Cover" -> do_close_m1_cover(w, sequence_id)
          [] cmd.name = "closeMasterAirSupply" -> do_close_master_air_supply(w, sequence_id)
          [] cmd.name = "m1CloseAirValve" -> do_m1_close_air_valve(w, sequence_id)
          [] cmd.name = "m1OpenAirValve" -> do_m1_open_air_valve(w, sequence_id)
          [] cmd.name = "m1SetPressure" -> do_m1_set_pressure(w, sequence_id, kw.pressure[1])
          [] cmd.name = "m2CloseAirValve" -> do_m2_close_air_valve(w, sequence_id)
          [] cmd.name = "m2OpenAirValve" -> do_m2_open_air_valve(w, sequence_id)
          [] cmd.name = "m2SetPressure" -> do_m2_set_pressure(w, sequence_id, kw.pressure[1])
          [] cmd.name = "openInstrumentAirValve" -> do_open_instrument_air_valve(w, sequence_id)
          [] cmd.name = "openM1CellVents" -> do_open_m1_cell_vents(w, sequence_id)
          [] cmd.name = "openM1Cover" -> do_open_m1_cover(w, sequence_id)
          [] cmd.name = "openMasterAirSupply" -> do_open_master_air_supply(w, sequence_id)

\* cmd_evt_dispatch_callback answering FAIL where it should answer NOACK.
cmd_evt_dispatch_callback_fail_response(w, d) ==
    LET v == verify_data(w, d)
    IN  IF ~v.data_ok
        THEN IF d.sequence_id = <<>>
             THEN Raised(v.w)
             ELSE Done(write_fail_response(v.w, d.sequence_id[1]))
        ELSE LET w1 == write_ack_response(v.w, d.sequence_id[1])
                 cmd == d.id[1]
             IN  IF cmd \notin Command
                 THEN Raised(w1)
                 ELSE dispatch_dict(cmd, w1, HandlerKwargs(d))

cmd_evt_dispatch_callback(w, d) ==
    LET v == verify_data(w, d)
    IN  IF ~v.data_ok
        THEN IF d.sequence_id = <<>>
             THEN Raised(v.w)  \* data[CommandArgument.SEQUENCE_ID]: KeyError
             ELSE Done(write_noack_response(v.w, d.sequence_id[1]))
        ELSE LET w1 == write_ack_response(v.w, d.sequence_id[1])
                 cmd == d.id[1]
             IN  IF cmd \notin Command
                 THEN Raised(w1)  \* self.dispatch_dict[cmd]: KeyError
                 ELSE dispatch_dict(cmd, w1, HandlerKwargs(d))

----------------------------------------------------------------------------
(* ATPneumaticsCsc: the object, its events and telemetry, its cover and    *)
(* vent tasks and its telemetry loops.  A task is the record [at, slept]:  *)
(* at is "done", "pending" (created by ensure_future, not started yet),    *)
(* "cancelling" (cancelled, CancelledError not thrown into it yet) or      *)
(* "sleeping" (in asyncio.sleep, for slept clock ticks so far).  The data  *)
(* of a topic is <<>> until it is set, then <<d>>.                         *)

Task(at, ticks) == [at |-> at, slept |-> ticks]

\* utils.make_done_future()
make_done_future == Task("done", 0)

\* asyncio.ensure_future(coro): scheduled, its first step still to run.
ensure_future == Task("pending", 0)

\* task.cancel(): nothing happens to a task that is done; any other task is
\* marked, and CancelledError is thrown into it when the event loop next
\* runs it.  Until then done() is False.
cancel(task) == IF task.at = "done" THEN task ELSE Task("cancelling", 0)

\* The attributes that hold the four tasks.
TaskNames ==
    { "_close_m1_covers_task", "_open_m1_covers_task",
      "_close_cell_vents_task", "_open_cell_vents_task" }

\* The four tasks with the time each sleeps.
TaskTimes(c) ==
    [ _close_m1_covers_task  |-> c.m1_covers_close_time,
      _open_m1_covers_task   |-> c.m1_covers_open_time,
      _close_cell_vents_task |-> c.cell_vents_close_time,
      _open_cell_vents_task  |-> c.cell_vents_open_time ]

\* The task has a step to take now: its first, the one its sleep ends with,
\* or the one that ends it when it has been cancelled.
Due(c, name) ==
    \/ c[name].at \in {"pending", "cancelling"}
    \/ c[name].at = "sleeping" /\ c[name].slept >= TaskTimes(c)[name]

\* The telemetry_loop tasks that are alive.  Nothing holds them, so they are
\* counted by where they are: created and not started, in the asyncio.sleep
\* of the loop, or with that sleep over.  The clock ticks once in
\* telemetry_interval.
Loops(pending, sleeping, woken) ==
    [pending |-> pending, sleeping |-> sleeping, woken |-> woken]

\* asyncio.create_task(self.telemetry_loop())
create_task(loops) == [loops EXCEPT !.pending = @ + 1]

\* A telemetry loop has a step to take now.
LoopDue(c) == c.telemetry_loops.pending > 0 \/ c.telemetry_loops.woken > 0

SummaryStates == {"STANDBY", "DISABLED", "ENABLED"}

\* ATPneumaticsCsc.__init__, with initial_state = salobj.State.STANDBY.
ATPneumaticsCsc ==
    [ started                  |-> FALSE,
      summary_state            |-> "STANDBY",
      telemetry_interval       |-> 1,
      _close_m1_covers_task    |-> make_done_future,
      _open_m1_covers_task     |-> make_done_future,
      _close_cell_vents_task   |-> make_done_future,
      _open_cell_vents_task    |-> make_done_future,
      telemetry_loops          |-> Loops(0, 0, 0),
      m1_covers_close_time     |-> 0,
      m1_covers_open_time      |-> 0,
      cell_vents_close_time    |-> 0,
      cell_vents_open_time     |-> 0,
      main_pressure            |-> 0,
      cell_load                |-> 0,
      evt_cellVentsState       |-> <<>>,
      evt_eStop                |-> <<>>,
      evt_instrumentState      |-> <<>>,
      evt_m1CoverLimitSwitches |-> <<>>,
      evt_m1CoverState         |-> <<>>,
      evt_m1SetPressure        |-> <<>>,
      evt_m1State              |-> <<>>,
      evt_m1VentsLimitSwitches |-> <<>>,
      evt_m1VentsPosition      |-> <<>>,
      evt_m2SetPressure        |-> <<>>,
      evt_m2State              |-> <<>>,
      evt_mainValveState       |-> <<>>,
      evt_powerStatus          |-> <<>>,
      tel_loadCell             |-> <<>>,
      tel_m1AirPressure        |-> <<>>,
      tel_m2AirPressure        |-> <<>>,
      tel_mainAirSourcePressure |-> <<>> ]

\* await self.evt_<topic>.set_write(**d): the data is set, and written when it
\* has changed or had not been set.
set_write(w, topic, d) ==
    IF w.self[topic] = <<d>> THEN w
    ELSE [ self |-> [w.self EXCEPT ![topic] = <<d>>],
           out  |-> Append(w.out, [id |-> topic] @@ d) ]

\* await self.tel_<topic>.set_write(**d): telemetry is written whether or not
\* it has changed.
tel_set_write(w, topic, d) ==
    [ self |-> [w.self EXCEPT ![topic] = <<d>>],
      out  |-> Append(w.out, [id |-> topic] @@ d) ]

\* ATPneumaticsCsc.set_cell_vents_events; closed and opened are never both
\* true in a call (the assert of its first line).
csc_set_cell_vents_events(w, closed, opened) ==
    LET w1 == IF ~(closed \/ opened)
              THEN set_write(w, "evt_cellVentsState", [state |-> "INMOTION"])
              ELSE w
        w2 == set_write(w1, "evt_m1VentsLimitSwitches",
                        [ventsClosedActive |-> closed, ventsOpenedActive |-> opened])
    IN  IF opened
        THEN set_write(set_write(w2, "evt_m1VentsPosition", [position |-> "OPENED"]),
                       "evt_cellVentsState", [state |-> "OPENED"])
        ELSE IF closed
        THEN set_write(set_write(w2, "evt_m1VentsPosition", [position |-> "CLOSED"]),
                       "evt_cellVentsState", [state |-> "CLOSED"])
        ELSE set_write(w2, "evt_m1VentsPosition", [position |-> "PARTIALLYOPENED"])

\* ATPneumaticsCsc.set_m1_cover_events
csc_set_m1_cover_events(w, closed, opened) ==
    LET w1 == set_write(w, "evt_m1CoverLimitSwitches",
                        [ cover1ClosedActive |-> closed, cover2ClosedActive |-> closed,
                          cover3ClosedActive |-> closed, cover4ClosedActive |-> closed,
                          cover1OpenedActive |-> opened, cover2OpenedActive |-> opened,
                          cover3OpenedActive |-> opened, cover4OpenedActive |-> opened ])
        state == IF opened /\ closed THEN "INVALID"
                 ELSE IF opened THEN "OPENED"
                 ELSE IF closed THEN "CLOSED" ELSE "INMOTION"
    IN  set_write(w1, "evt_m1CoverState", [state |-> state])

\* ATPneumaticsCsc.configure with its default arguments; its assertions
\* hold for them.
csc_configure(w) ==
    LET w1 == [w EXCEPT !.self.m1_covers_close_time = DEFAULT_M1_COVERS_CLOSE_TIME,
                        !.self.m1_covers_open_time = DEFAULT_M1_COVERS_OPEN_TIME,
                        !.self.cell_vents_close_time = DEFAULT_CELL_VENTS_CLOSE_TIME,
                        !.self.cell_vents_open_time = DEFAULT_CELL_VENTS_OPEN_TIME]
        w2 == set_write(w1, "evt_m1SetPressure", [pressure |-> DEFAULT_M1_PRESSURE])
        w3 == set_write(w2, "evt_m2SetPressure", [pressure |-> DEFAULT_M2_PRESSURE])
    IN  [w3 EXCEPT !.self.main_pressure = DEFAULT_MAIN_PRESSURE,
                   !.self.cell_load = DEFAULT_CELL_LOAD]

\* ATPneumaticsCsc.initialize
csc_initialize(w) ==
    LET w1 == set_write(w, "evt_eStop", [triggered |-> FALSE])
        w2 == csc_set_cell_vents_events(w1, TRUE, FALSE)
        w3 == csc_set_m1_cover_events(w2, TRUE, FALSE)
        w4 == set_write(w3, "evt_instrumentState", [state |-> "OPENED"])
        w5 == set_write(w4, "evt_m1State", [state |-> "OPENED"])
        w6 == set_write(w5, "evt_m2State", [state |-> "OPENED"])
        w7 == set_write(w6, "evt_mainValveState", [state |-> "OPENED"])
    IN  set_write(w7, "evt_powerStatus",
                  [powerOnL1 |-> TRUE, powerOnL2 |-> TRUE, powerOnL3 |-> TRUE])

\* The valve and set-pressure commands of ATPneumaticsCsc, after assert_enabled.
do_closeMasterAirSupply(w) == set_write(w, "evt_mainValveState", [state |-> "CLOSED"])

do_openMasterAirSupply(w) == set_write(w, "evt_mainValveState", [state |-> "OPENED"])

do_m1CloseAirValve(w) == set_write(w, "evt_m1State", [state |-> "CLOSED"])

do_m1OpenAirValve(w) == set_write(w, "evt_m1State", [state |-> "OPENED"])

do_m2CloseAirValve(w) == set_write(w, "evt_m2State", [state |-> "CLOSED"])

do_m2OpenAirValve(w) == set_write(w, "evt_m2State", [state |-> "OPENED"])

do_m1SetPressure(w, pressure) == set_write(w, "evt_m1SetPressure", [pressure |-> pressure])

do_m2SetPressure(w, pressure) == set_write(w, "evt_m2SetPressure", [pressure |-> pressure])

\* One pass of the loop of ATPneumaticsCsc.telemetry_loop, up to its sleep.
csc_telemetry_loop(w) ==
    LET opened_state == "OPENED"
        main_valve_open == w.self.evt_mainValveState[1].state = opened_state
        m1_pressure == IF main_valve_open /\ w.self.evt_m1State[1].state = opened_state
                       THEN w.self.evt_m1SetPressure[1].pressure ELSE 0
        m2_pressure == IF main_valve_open /\ w.self.evt_m2State[1].state = opened_state
                       THEN w.self.evt_m2SetPressure[1].pressure ELSE 0
        w1 == tel_set_write(w, "tel_m1AirPressure", [pressure |-> m1_pressure])
        w2 == tel_set_write(w1, "tel_m2AirPressure", [pressure |-> m2_pressure])
        w3 == tel_set_write(w2, "tel_mainAirSourcePressure",
                            [pressure |-> IF main_valve_open THEN w2.self.main_pressure
                                          ELSE 0])
    IN  tel_set_write(w3, "tel_loadCell", [cellLoad |-> w3.self.cell_load])

\* The properties m1CoversClosing, m1CoversOpening, m1_vents_closing and
\* m1VentsOpening: not task.done().
m1CoversClosing(c) == c._close_m1_covers_task.at # "done"

m1CoversOpening(c) == c._open_m1_covers_task.at # "done"

m1_vents_closing(c) == c._close_cell_vents_task.at # "done"

m1VentsOpening(c) == c._open_cell_vents_task.at # "done"

----------------------------------------------------------------------------
(* The state machine *)

SleepLabels ==
    { "close_m1_cell_vents_sleep", "close_m1_cover_sleep",
      "open_m1_cell_vents_sleep", "open_m1_cover_sleep" }

Init ==
    /\ sim = PneumaticsSimulator
    /\ cmd_evt_connected = FALSE
    /\ cmd_evt_written = <<>>
    /\ inbox = <<>>
    /\ pc = "idle"
    /\ kwargs = NoKwargs
    /\ data = NoData
    /\ client_seq = 0
    /\ seq_rejected = FALSE
    /\ valid_received = FALSE
    /\ tel_connected = FALSE
    /\ _telemetry_task = "done"
    /\ telemetry_loops = 0
    /\ tel_written = <<>>
    /\ slept = 0
    /\ csc = ATPneumaticsCsc
    /\ csc_written = <<>>
    /\ overtakes = 0

\* The payload names a registered schema and carries a sequence id.
Known(d) ==
    /\ d.id # <<>>
    /\ d.sequence_id # <<>>
    /\ replace(d.id[1]) \in registry

\* The commands of the connection so far are valid, known and numbered 1..n.
InOrder(d, n) ==
    /\ n >= 0
    /\ d.id # <<>>
    /\ d.id[1] \in Command
    /\ validate(d, replace(d.id[1]))
    /\ d.sequence_id = <<n + 1>>

\* A command/event client connects: cmd_evt_connect_callback with
\* server.connected.
cmd_evt_connect ==
    /\ ~cmd_evt_connected
    /\ pc = "idle"
    /\ LET w == initialize(configure(World(sim, <<>>),
                     DEFAULT_M1_COVERS_CLOSE_TIME, DEFAULT_M1_COVERS_OPEN_TIME,
                     DEFAULT_CELL_VENTS_CLOSE_TIME, DEFAULT_CELL_VENTS_OPEN_TIME,
                     DEFAULT_M1_PRESSURE, DEFAULT_M2_PRESSURE,
                     DEFAULT_MAIN_PRESSURE, DEFAULT_CELL_LOAD))
       IN  /\ sim' = w.self
           /\ cmd_evt_written' = w.out
    /\ cmd_evt_connected' = TRUE
    /\ inbox' = <<>>
    /\ data' = NoData
    /\ client_seq' = 0
    /\ seq_rejected' = FALSE
    /\ UNCHANGED <<pc, kwargs, valid_received, tel_vars, slept, csc_vars>>

\* The client goes away while no handler is suspended (or after the read
\* loop has ended with an exception): cmd_evt_connect_callback without
\* server.connected does nothing.
cmd_evt_disconnect ==
    /\ cmd_evt_connected
    /\ pc \in {"idle", "raised"}
    /\ cmd_evt_connected' = FALSE
    /\ cmd_evt_written' = <<>>
    /\ inbox' = <<>>
    /\ pc' = "idle"
    /\ data' = NoData
    /\ client_seq' = 0
    /\ seq_rejected' = FALSE
    /\ UNCHANGED <<sim, kwargs, valid_received, tel_vars, slept, csc_vars>>

\* The client writes a payload while a handler is suspended; it stays unread.
client_write ==
    /\ cmd_evt_connected
    /\ pc \in SleepLabels
    /\ inbox = <<>>
    /\ \E d \in Payloads : inbox' = <<d>>
    /\ UNCHANGED <<sim, cmd_evt_connected, cmd_evt_written, pc, kwargs, data, client_seq,
                   seq_rejected, valid_received, tel_vars, slept, csc_vars>>

\* The client reads what the simulator has written, once the exchange is over.
client_read ==
    /\ cmd_evt_connected
    /\ pc = "idle"
    /\ cmd_evt_written # <<>>
    /\ cmd_evt_written' = <<>>
    /\ data' = NoData
    /\ UNCHANGED <<sim, cmd_evt_connected, inbox, pc, kwargs, client_seq, seq_rejected,
                   valid_received, tel_vars, slept, csc_vars>>

\* await self.dispatch_callback(data=d): the callback runs on the payload
\* read_json has returned.
dispatch_callback(d) ==
    LET r == cmd_evt_dispatch_callback(World(sim, <<>>), d)
    IN  /\ sim' = r.w.self
        /\ cmd_evt_written' = r.w.out
        /\ pc' = IF r.at = "done" THEN "idle" ELSE r.at
        /\ kwargs' = IF r.at \in SleepLabels THEN HandlerKwargs(d) ELSE NoKwargs
        /\ data' = <<d>>
        /\ client_seq' = IF InOrder(d, client_seq) THEN client_seq + 1 ELSE -1
        /\ seq_rejected' =
               (seq_rejected
                  \/ (Known(d) /\ d.sequence_id[1] # sim.last_sequence_id + 1))
        /\ valid_received' =
               (valid_received
                  \/ (Known(d) /\ d.id[1] \in Command /\ validate(d, replace(d.id[1]))))

\* read_and_dispatch starting the callback as a task of its own: the next
\* payload is read while a handler is suspended.
read_and_dispatch_not_awaited ==
    /\ cmd_evt_connected
    /\ pc \in {"idle"} \cup SleepLabels
    /\ pc = "idle" => (cmd_evt_written = <<>> /\ data = NoData)
    /\ \E d \in (IF inbox = <<>> THEN Payloads ELSE {Head(inbox)}) : dispatch_callback(d)
    /\ inbox' = <<>>
    /\ UNCHANGED <<cmd_evt_connected, tel_vars, slept, csc_vars>>

\* PneumaticsServerSimulator.read_and_dispatch: read_json returns the oldest
\* unread payload, or else the one the client writes next.
read_and_dispatch ==
    /\ cmd_evt_connected
    /\ pc = "idle"
    /\ cmd_evt_written = <<>>
    /\ data = NoData
    /\ \E d \in (IF inbox = <<>> THEN Payloads ELSE {Head(inbox)}) : dispatch_callback(d)
    /\ inbox' = <<>>
    /\ UNCHANGED <<cmd_evt_connected, tel_vars, slept, csc_vars>>

\* asyncio.sleep returns in a suspended handler, which runs to its end.
Resume(r) ==
    /\ sim' = r.w.self
    /\ cmd_evt_written' = r.w.out
    /\ pc' = "idle"
    /\ kwargs' = NoKwargs
    /\ UNCHANGED <<cmd_evt_connected, inbox, data, client_seq, seq_rejected,
                   valid_received, tel_vars, slept, csc_vars>>

close_m1_cell_vents_wake ==
    /\ pc = "close_m1_cell_vents_sleep"
    /\ Resume(close_m1_cell_vents_settle(World(sim, cmd_evt_written), kwargs.sequence_id[1]))

close_m1_cover_wake ==
    /\ pc = "close_m1_cover_sleep"
    /\ Resume(close_m1_cover_settle(World(sim, cmd_evt_written), kwargs.sequence_id[1]))

open_m1_cell_vents_wake ==
    /\ pc = "open_m1_cell_vents_sleep"
    /\ Resume(open_m1_cell_vents_settle(World(sim, cmd_evt_written), kwargs.sequence_id[1]))

open_m1_cover_wake ==
    /\ pc = "open_m1_cover_sleep"
    /\ Resume(open_m1_cover_settle(World(sim, cmd_evt_written), kwargs.sequence_id[1]))

----------------------------------------------------------------------------
(* Telemetry.  update_telemetry is suspended only in its writes, so one    *)
(* pass of telemetry_loop, the four writes and the sleep that follows, is   *)
(* one step.                                                               *)

\* _write_telemetry(tel_id, data): the fields of the dataclass and the id.
_write_telemetry(w, tel_id, d) == [w EXCEPT !.out = Append(@, d @@ [id |-> tel_id])]

\* update_telemetry deriving the mirror pressures from the mirror valves alone.
update_telemetry_main_valve_ignored(w) ==
    LET w1 == [w EXCEPT !.self.m1_air_pressure.pressure =
                   IF w.self.m1_state = "OPENED" THEN w.self.m1_pressure ELSE 0]
        w2 == [w1 EXCEPT !.self.m2_air_pressure.pressure =
                   IF w1.self.m2_state = "OPENED" THEN w1.self.m2_pressure ELSE 0]
        w3 == _write_telemetry(w2, Telemetry.M1_AIR_PRESSURE, w2.self.m1_air_pressure)
        w4 == _write_telemetry(w3, Telemetry.M2_AIR_PRESSURE, w3.self.m2_air_pressure)
        w5 == _write_telemetry(w4, Telemetry.MAIN_AIR_SOURCE_PRESSURE,
                               w4.self.main_air_source_pressure)
    IN  _write_telemetry(w5, Telemetry.LOAD_CELL, w5.self.load_cell)

\* update_telemetry writing the mirror pressures only when they have changed.
update_telemetry_on_change(w) ==
    LET main_valve_open == w.self.main_valve_state = "OPENED"
        w1 == [w EXCEPT !.self.m1_air_pressure.pressure =
                   IF main_valve_open /\ w.self.m1_state = "OPENED"
                   THEN w.self.m1_pressure ELSE 0]
        w2 == [w1 EXCEPT !.self.m2_air_pressure.pressure =
                   IF main_valve_open /\ w1.self.m2_state = "OPENED"
                   THEN w1.self.m2_pressure ELSE 0]
        w3 == IF w2.self.m1_air_pressure = w.self.m1_air_pressure THEN w2
              ELSE _write_telemetry(w2, Telemetry.M1_AIR_PRESSURE, w2.self.m1_air_pressure)
        w4 == IF w2.self.m2_air_pressure = w.self.m2_air_pressure THEN w3
              ELSE _write_telemetry(w3, Telemetry.M2_AIR_PRESSURE, w3.self.m2_air_pressure)
        w5 == _write_telemetry(w4, Telemetry.MAIN_AIR_SOURCE_PRESSURE,
                               w4.self.main_air_source_pressure)
    IN  _write_telemetry(w5, Telemetry.LOAD_CELL, w5.self.load_cell)

update_telemetry(w) ==
    LET main_valve_open == w.self.main_valve_state = "OPENED"
        w1 == [w EXCEPT !.self.m1_air_pressure.pressure =
                   IF main_valve_open /\ w.self.m1_state = "OPENED"
                   THEN w.self.m1_pressure ELSE 0]
        w2 == [w1 EXCEPT !.self.m2_air_pressure.pressure =
                   IF main_valve_open /\ w1.self.m2_state = "OPENED"
                   THEN w1.self.m2_pressure ELSE 0]
        w3 == _write_telemetry(w2, Telemetry.M1_AIR_PRESSURE, w2.self.m1_air_pressure)
        w4 == _write_telemetry(w3, Telemetry.M2_AIR_PRESSURE, w3.self.m2_air_pressure)
        w5 == _write_telemetry(w4, Telemetry.MAIN_AIR_SOURCE_PRESSURE,
                               w4.self.main_air_source_pressure)
    IN  _write_telemetry(w5, Telemetry.LOAD_CELL, w5.self.load_cell)

cmd_vars == <<cmd_evt_connected, cmd_evt_written, inbox, pc, kwargs, data, client_seq,
              seq_rejected, valid_received>>

\* A telemetry client connects: tel_connect_callback with server.connected.
tel_connect ==
    /\ ~tel_connected
    /\ tel_connected' = TRUE
    /\ _telemetry_task' = IF _telemetry_task = "done" THEN "running" ELSE _telemetry_task
    /\ telemetry_loops' = IF _telemetry_task = "done" THEN telemetry_loops + 1
                          ELSE telemetry_loops
    /\ tel_written' = <<>>
    /\ UNCHANGED <<sim, cmd_vars, slept, csc_vars>>

\* tel_connect_callback leaving the task alone when the client goes away.
tel_disconnect_task_not_cancelled ==
    /\ tel_connected
    /\ tel_connected' = FALSE
    /\ tel_written' = <<>>
    /\ UNCHANGED <<sim, cmd_vars, _telemetry_task, telemetry_loops, slept, csc_vars>>

\* tel_connect_callback replacing the task by a done future, without
\* cancelling it, when the client goes away.
tel_disconnect_task_dropped ==
    /\ tel_connected
    /\ tel_connected' = FALSE
    /\ _telemetry_task' = "done"
    /\ tel_written' = <<>>
    /\ UNCHANGED <<sim, cmd_vars, telemetry_loops, slept, csc_vars>>

\* The telemetry client goes away: tel_connect_callback cancels the task.
\* The cancelled task ends before the event loop handles another connection.
tel_disconnect ==
    /\ tel_connected
    /\ tel_connected' = FALSE
    /\ _telemetry_task' = "done"
    /\ telemetry_loops' = IF _telemetry_task = "running" THEN telemetry_loops - 1
                          ELSE telemetry_loops
    /\ tel_written' = <<>>
    /\ UNCHANGED <<sim, cmd_vars, slept, csc_vars>>

\* One pass of the loop of telemetry_loop.
telemetry_loop ==
    /\ telemetry_loops > 0
    /\ Len(tel_written) < 4 * MaxUnreadTicks
    /\ LET w == update_telemetry(World(sim, tel_written))
       IN  /\ sim' = w.self
           /\ tel_written' = w.out
    /\ UNCHANGED <<cmd_vars, tel_connected, _telemetry_task, telemetry_loops, slept, csc_vars>>

\* The telemetry client reads what has been written.
tel_client_read ==
    /\ tel_connected
    /\ tel_written # <<>>
    /\ tel_written' = <<>>
    /\ UNCHANGED <<sim, cmd_vars, tel_connected, _telemetry_task, telemetry_loops, slept,
                   csc_vars>>

\* The commands that set what the telemetry is derived from, with the
\* sequence id the simulator expects.
TelPayloads(s) ==
    IF s.last_sequence_id >= MaxTelSeq THEN {}
    ELSE { Payload(<<Id("cmd_", n)>>, <<s.last_sequence_id + 1>>, <<>>) :
             n \in { "closeMasterAirSupply", "openMasterAirSupply", "m1CloseAirValve",
                     "m1OpenAirValve", "m2CloseAirValve", "m2OpenAirValve" } }
         \cup { Payload(<<Id("cmd_", n)>>, <<s.last_sequence_id + 1>>, <<p>>) :
                  n \in {"m1SetPressure", "m2SetPressure"}, p \in Pressures }

\* read_and_dispatch when the client sends one of those commands.
read_and_dispatch_in_order ==
    /\ cmd_evt_connected
    /\ pc = "idle"
    /\ cmd_evt_written = <<>>
    /\ data = NoData
    /\ \E d \in TelPayloads(sim) : dispatch_callback(d)
    /\ inbox' = <<>>
    /\ UNCHANGED <<cmd_evt_connected, tel_vars, slept, csc_vars>>

TelNext ==
    \/ cmd_evt_connect
    \/ cmd_evt_disconnect
    \/ client_read
    \/ read_and_dispatch_in_order
    \/ tel_connect
    \/ tel_disconnect
    \/ telemetry_loop
    \/ tel_client_read

\* The simulator with a telemetry client, and a command/event client that
\* sends valve and set-pressure commands in order.
TelSpec == Init /\ [][TelNext]_vars

----------------------------------------------------------------------------
(* configure called by the program that embeds the simulator, with          *)
(* arguments of its own, while a command/event client is connected.        *)

\* Transition times and pressures a caller passes to configure.
ConfigureTimes == {-1, 0, 2}
ConfigureM1Pressures == {0, 5, 6}
ConfigureM2Pressures == {0, 6}
ConfigureMainPressures == {-1, 10}
ConfigureCellLoads == {0, 100}

\* await simulator.configure(...): an AssertionError leaves everything as it
\* was, otherwise the fields are assigned and the two events written.
configure_call ==
    /\ cmd_evt_connected
    /\ pc = "idle"
    /\ cmd_evt_written = <<>>
    /\ \E cover_close \in ConfigureTimes, cover_open \in ConfigureTimes,
          vents_close \in ConfigureTimes, vents_open \in ConfigureTimes,
          m1_pressure \in ConfigureM1Pressures, m2_pressure \in ConfigureM2Pressures,
          main_pressure \in ConfigureMainPressures, cell_load \in ConfigureCellLoads :
          LET w == configure(World(sim, <<>>), cover_close, cover_open, vents_close,
                             vents_open, m1_pressure, m2_pressure, main_pressure,
                             cell_load)
          IN  /\ sim' = w.self
              /\ cmd_evt_written' = w.out
    /\ UNCHANGED <<cmd_evt_connected, inbox, pc, kwargs, data, client_seq, seq_rejected,
                   valid_received, tel_vars, slept, csc_vars>>

ConfigNext ==
    \/ cmd_evt_connect
    \/ cmd_evt_disconnect
    \/ client_read
    \/ configure_call

\* The simulator with a command/event client and a caller of configure.
ConfigSpec == Init /\ [][ConfigNext]_vars

----------------------------------------------------------------------------
(* The cover and vent handlers with a clock.  slept counts the ticks the    *)
(* suspended handler has been in asyncio.sleep(t); the sleep returns once   *)
(* t ticks have passed, and at once when t <= 0.                            *)

\* The most commands one connection sends in the timed specification.
MaxTimedSeq == 3

\* The cover and vent commands, with the sequence id the simulator expects.
TimedPayloads(s) ==
    IF s.last_sequence_id >= MaxTimedSeq THEN {}
    ELSE { Payload(<<Id("cmd_", n)>>, <<s.last_sequence_id + 1>>, <<>>) :
             n \in {"closeM1CellVents", "closeM1Cover", "openM1CellVents", "openM1Cover"} }

\* The argument of the asyncio.sleep each handler is suspended in.
SleepTimes(s) ==
    [ close_m1_cell_vents_sleep |-> s.cell_vents_close_time,
      close_m1_cover_sleep      |-> s.m1_covers_close_time,
      open_m1_cell_vents_sleep  |-> s.cell_vents_open_time,
      open_m1_cover_sleep       |-> s.m1_covers_open_time ]

\* read_and_dispatch when the client sends one of those commands; a handler
\* that suspends starts its sleep now.
read_and_dispatch_timed ==
    /\ cmd_evt_connected
    /\ pc = "idle"
    /\ cmd_evt_written = <<>>
    /\ data = NoData
    /\ \E d \in TimedPayloads(sim) : dispatch_callback(d)
    /\ inbox' = <<>>
    /\ slept' = 0
    /\ UNCHANGED <<cmd_evt_connected, tel_vars, csc_vars>>

\* await simulator.configure(...) with transition times and the default
\* pressures and cell load.
configure_times ==
    /\ cmd_evt_connected
    /\ pc = "idle"
    /\ cmd_evt_written = <<>>
    /\ \E cover_close \in ConfigureTimes, cover_open \in ConfigureTimes,
          vents_close \in ConfigureTimes, vents_open \in ConfigureTimes :
          LET w == configure(World(sim, <<>>), cover_close, cover_open, vents_close,
                             vents_open, DEFAULT_M1_PRESSURE, DEFAULT_M2_PRESSURE,
                             DEFAULT_MAIN_PRESSURE, DEFAULT_CELL_LOAD)
          IN  /\ sim' = w.self
              /\ cmd_evt_written' = w.out
    /\ UNCHANGED <<cmd_evt_connected, inbox, pc, kwargs, data, client_seq, seq_rejected,
                   valid_received, tel_vars, slept, csc_vars>>

\* A tick of the clock while the handler is in a sleep that has not ended.
sim_tick ==
    /\ pc \in SleepLabels
    /\ slept < SleepTimes(sim)[pc]
    /\ slept' = slept + 1
    /\ UNCHANGED <<sim, cmd_vars, tel_vars, csc_vars>>

\* The sleep has lasted its time.
SleepOver == pc \in SleepLabels /\ slept >= SleepTimes(sim)[pc]

close_m1_cell_vents_timed_wake == SleepOver /\ close_m1_cell_vents_wake

close_m1_cover_timed_wake == SleepOver /\ close_m1_cover_wake

open_m1_cell_vents_timed_wake == SleepOver /\ open_m1_cell_vents_wake

open_m1_cover_timed_wake == SleepOver /\ open_m1_cover_wake

ClockNext ==
    \/ cmd_evt_connect
    \/ cmd_evt_disconnect
    \/ client_read
    \/ read_and_dispatch_timed
    \/ sim_tick
    \/ close_m1_cell_vents_timed_wake
    \/ close_m1_cover_timed_wake
    \/ open_m1_cell_vents_timed_wake
    \/ open_m1_cover_timed_wake

\* The simulator with a clock and a command/event client that connects,
\* disconnects and sends cover and vent commands in order.
ClockSpec == Init /\ [][ClockNext]_vars

TimedNext ==
    \/ cmd_evt_connect
    \/ cmd_evt_disconnect
    \/ client_read
    \/ configure_times
    \/ read_and_dispatch_timed
    \/ sim_tick
    \/ close_m1_cell_vents_timed_wake
    \/ close_m1_cover_timed_wake
    \/ open_m1_cell_vents_timed_wake
    \/ open_m1_cover_timed_wake

\* The simulator with a clock, a command/event client that sends cover and
\* vent commands in order, and a caller of configure.
TimedSpec == Init /\ [][TimedNext]_vars

\* asyncio.sleep returning: the event loop resumes the handler whose sleep
\* is over.
TimedWake ==
    \/ close_m1_cell_vents_timed_wake
    \/ close_m1_cover_timed_wake
    \/ open_m1_cell_vents_timed_wake
    \/ open_m1_cover_timed_wake

\* Time passes while a handler sleeps, and the event loop resumes a handler
\* whose sleep is over.
TimedFairness == WF_vars(sim_tick) /\ WF_vars(TimedWake)

TimedFairSpec == TimedSpec /\ TimedFairness

----------------------------------------------------------------------------
(* ATPneumaticsCsc: start, the summary state, the four cover and vent      *)
(* commands and the four tasks they start.  A command handler has no await *)
(* after assert_enabled and is one step.  A task is suspended for longer   *)
(* than a write only in asyncio.sleep: its first step runs to the sleep    *)
(* (or to its end), its second from the sleep to its end.  One pass of a   *)
(* telemetry loop, the test of the summary state, the four writes and the  *)
(* sleep that follows, is one step.  A telemetry loop touches neither the  *)
(* cover and vent tasks nor their events: the event loop runs a telemetry  *)
(* loop that has a step to take before those tasks and before the handlers *)
(* of the cover and vent commands, in the one order kept of the two that   *)
(* lead to the same state.                                                 *)

\* The simulator, which is not running when the CSC is.
sim_vars == <<sim, cmd_vars, tel_vars, slept>>

\* The acknowledgement salobj writes when a command handler returns or raises.
AckCmd(command, ack) == [id |-> "ackcmd", command |-> command, ack |-> ack]

\* The most command handlers the event loop runs before a task that has a
\* step to take: those whose callbacks were ready before the task was.
MaxOvertakes == 1

\* Most telemetry loops alive at a time.
MaxTelemetryLoops == 2

\* A cover or vent task or a telemetry loop has a step to take now.
SomeDue(c) == (\E name \in TaskNames : Due(c, name)) \/ LoopDue(c)

\* A command handler runs: before the event loop has run the tasks that have
\* a step to take, if there are any, or after.
HandlerRuns ==
    IF SomeDue(csc)
    THEN overtakes < MaxOvertakes /\ overtakes' = overtakes + 1
    ELSE overtakes' = overtakes

\* A task has taken a step.
TaskRuns == overtakes' = IF SomeDue(csc') THEN overtakes ELSE 0

\* The telemetry loops that are alive.
Alive(c) == c.telemetry_loops.pending + c.telemetry_loops.sleeping + c.telemetry_loops.woken

\* ATPneumaticsCsc.start: configure() and initialize().
csc_start ==
    /\ ~csc.started
    /\ LET w == csc_initialize(csc_configure(World(csc, <<>>)))
       IN  /\ csc' = [w.self EXCEPT !.started = TRUE]
           /\ csc_written' = w.out
    /\ UNCHANGED <<sim_vars, overtakes>>

\* The state transition commands of salobj (start, enable, disable,
\* standby), each followed by handle_summary_state.
handle_summary_state ==
    /\ csc.started
    /\ \E state \in SummaryStates :
          /\ <<csc.summary_state, state>> \in
                { <<"STANDBY", "DISABLED">>, <<"DISABLED", "ENABLED">>,
                  <<"ENABLED", "DISABLED">>, <<"DISABLED", "STANDBY">> }
          /\ IF state \in {"DISABLED", "ENABLED"}
             THEN /\ Alive(csc) < MaxTelemetryLoops
                  /\ csc' = [csc EXCEPT !.summary_state = state,
                                        !.telemetry_loops = create_task(@)]
             ELSE csc' = [csc EXCEPT !.summary_state = state]
          /\ csc_written' = <<[id |-> "evt_summaryState", summaryState |-> state]>>
    /\ HandlerRuns
    /\ UNCHANGED sim_vars

\* A command handler whose assert_enabled raises.
NotEnabled(command) ==
    /\ csc.summary_state # "ENABLED"
    /\ csc' = csc
    /\ csc_written' = <<AckCmd(command, "CMD_FAILED")>>

do_closeM1CellVents ==
    /\ csc.started
    /\ ~LoopDue(csc)
    /\ \/ NotEnabled("closeM1CellVents")
       \/ /\ csc.summary_state = "ENABLED"
          /\ LET c1 == [csc EXCEPT !._open_cell_vents_task = cancel(@)]
             IN  csc' = IF m1_vents_closing(c1) THEN c1
                        ELSE [c1 EXCEPT !._close_cell_vents_task = ensure_future]
          /\ csc_written' = <<AckCmd("closeM1CellVents", "CMD_COMPLETE")>>
    /\ HandlerRuns
    /\ UNCHANGED sim_vars

\* self.m1CoversClosing is looked at before the opening task is cancelled.
do_closeM1Cover ==
    /\ csc.started
    /\ ~LoopDue(csc)
    /\ \/ NotEnabled("closeM1Cover")
       \/ /\ csc.summary_state = "ENABLED"
          /\ csc' = IF m1CoversClosing(csc) THEN csc
                    ELSE [csc EXCEPT !._open_m1_covers_task = cancel(@),
                                     !._close_m1_covers_task = ensure_future]
          /\ csc_written' = <<AckCmd("closeM1Cover", "CMD_COMPLETE")>>
    /\ HandlerRuns
    /\ UNCHANGED sim_vars

\* do_openM1CellVents starting a task whether or not one is opening the vents.
do_openM1CellVents_task_replaced ==
    /\ csc.started
    /\ ~LoopDue(csc)
    /\ \/ NotEnabled("openM1CellVents")
       \/ /\ csc.summary_state = "ENABLED"
          /\ csc' = [csc EXCEPT !._close_cell_vents_task = cancel(@),
                                !._open_cell_vents_task = ensure_future]
          /\ csc_written' = <<AckCmd("openM1CellVents", "CMD_COMPLETE")>>
    /\ HandlerRuns
    /\ UNCHANGED sim_vars

do_openM1CellVents ==
    /\ csc.started
    /\ ~LoopDue(csc)
    /\ \/ NotEnabled("openM1CellVents")
       \/ /\ csc.summary_state = "ENABLED"
          /\ LET c1 == [csc EXCEPT !._close_cell_vents_task = cancel(@)]
             IN  csc' = IF m1VentsOpening(c1) THEN c1
                        ELSE [c1 EXCEPT !._open_cell_vents_task = ensure_future]
          /\ csc_written' = <<AckCmd("openM1CellVents", "CMD_COMPLETE")>>
    /\ HandlerRuns
    /\ UNCHANGED sim_vars

\* do_openM1Cover leaving the closing task to run.
do_openM1Cover_close_not_cancelled ==
    /\ csc.started
    /\ ~LoopDue(csc)
    /\ \/ NotEnabled("openM1Cover")
       \/ /\ csc.summary_state = "ENABLED"
          /\ csc' = IF m1CoversOpening(csc) THEN csc
                    ELSE [csc EXCEPT !._open_m1_covers_task = ensure_future]
          /\ csc_written' = <<AckCmd("openM1Cover", "CMD_COMPLETE")>>
    /\ HandlerRuns
    /\ UNCHANGED sim_vars

do_openM1Cover ==
    /\ csc.started
    /\ ~LoopDue(csc)
    /\ \/ NotEnabled("openM1Cover")
       \/ /\ csc.summary_state = "ENABLED"
          /\ LET c1 == [csc EXCEPT !._close_m1_covers_task = cancel(@)]
             IN  csc' = IF m1CoversOpening(c1) THEN c1
                        ELSE [c1 EXCEPT !._open_m1_covers_task = ensure_future]
          /\ csc_written' = <<AckCmd("openM1Cover", "CMD_COMPLETE")>>
    /\ HandlerRuns
    /\ UNCHANGED sim_vars

\* A step of a task: the object and the output it leaves, and the task.
TaskStep(w, task_name, task) ==
    /\ ~LoopDue(csc)
    /\ csc' = [w.self EXCEPT ![task_name] = task]
    /\ csc_written' = w.out
    /\ TaskRuns
    /\ UNCHANGED sim_vars

\* close_m1_covers up to its sleep, or to its end when the covers are closed.
close_m1_covers_start ==
    /\ csc._close_m1_covers_task.at = "pending"
    /\ IF csc.evt_m1CoverState[1].state # "CLOSED"
       THEN TaskStep(csc_set_m1_cover_events(World(csc, <<>>), FALSE, FALSE),
                     "_close_m1_covers_task", Task("sleeping", 0))
       ELSE TaskStep(csc_set_m1_cover_events(World(csc, <<>>), TRUE, FALSE),
                     "_close_m1_covers_task", make_done_future)

\* close_m1_covers from its sleep to its end.
close_m1_covers_wake ==
    /\ csc._close_m1_covers_task.at = "sleeping"
    /\ csc._close_m1_covers_task.slept >= csc.m1_covers_close_time
    /\ TaskStep(csc_set_m1_cover_events(World(csc, <<>>), TRUE, FALSE),
                "_close_m1_covers_task", make_done_future)

close_cell_vents_start ==
    /\ csc._close_cell_vents_task.at = "pending"
    /\ IF csc.evt_m1VentsPosition[1].position # "CLOSED"
       THEN TaskStep(csc_set_cell_vents_events(World(csc, <<>>), FALSE, FALSE),
                     "_close_cell_vents_task", Task("sleeping", 0))
       ELSE TaskStep(csc_set_cell_vents_events(World(csc, <<>>), TRUE, FALSE),
                     "_close_cell_vents_task", make_done_future)

close_cell_vents_wake ==
    /\ csc._close_cell_vents_task.at = "sleeping"
    /\ csc._close_cell_vents_task.slept >= csc.cell_vents_close_time
    /\ TaskStep(csc_set_cell_vents_events(World(csc, <<>>), TRUE, FALSE),
                "_close_cell_vents_task", make_done_future)

open_m1_covers_start ==
    /\ csc._open_m1_covers_task.at = "pending"
    /\ IF csc.evt_m1CoverState[1].state # "OPENED"
       THEN TaskStep(csc_set_m1_cover_events(World(csc, <<>>), FALSE, FALSE),
                     "_open_m1_covers_task", Task("sleeping", 0))
       ELSE TaskStep(csc_set_m1_cover_events(World(csc, <<>>), FALSE, TRUE),
                     "_open_m1_covers_task", make_done_future)

open_m1_covers_wake ==
    /\ csc._open_m1_covers_task.at = "sleeping"
    /\ csc._open_m1_covers_task.slept >= csc.m1_covers_open_time
    /\ TaskStep(csc_set_m1_cover_events(World(csc, <<>>), FALSE, TRUE),
                "_open_m1_covers_task", make_done_future)

open_cell_vents_start ==
    /\ csc._open_cell_vents_task.at = "pending"
    /\ IF csc.evt_m1VentsPosition[1].position # "OPENED"
       THEN TaskStep(csc_set_cell_vents_events(World(csc, <<>>), FALSE, FALSE),
                     "_open_cell_vents_task", Task("sleeping", 0))
       ELSE TaskStep(csc_set_cell_vents_events(World(csc, <<>>), FALSE, TRUE),
                     "_open_cell_vents_task", make_done_future)

open_cell_vents_wake ==
    /\ csc._open_cell_vents_task.at = "sleeping"
    /\ csc._open_cell_vents_task.slept >= csc.cell_vents_open_time
    /\ TaskStep(csc_set_cell_vents_events(World(csc, <<>>), FALSE, TRUE),
                "_open_cell_vents_task", make_done_future)

\* The event loop runs a task that has been cancelled: CancelledError ends
\* it where it is, in its sleep or before its first step.
task_cancelled(task_name) ==
    /\ csc[task_name].at = "cancelling"
    /\ ~LoopDue(csc)
    /\ csc' = [csc EXCEPT ![task_name] = make_done_future]
    /\ csc_written' = <<>>
    /\ TaskRuns
    /\ UNCHANGED sim_vars

\* A step of a telemetry loop that tests the summary state: the loop
\* writes the telemetry and sleeps, or ends.
LoopStep(loops) ==
    /\ IF csc.summary_state = "ENABLED"
       THEN LET w == csc_telemetry_loop(World(csc, <<>>))
            IN  /\ csc' = [w.self EXCEPT !.telemetry_loops =
                                             [loops EXCEPT !.sleeping = @ + 1]]
                /\ csc_written' = w.out
       ELSE /\ csc' = [csc EXCEPT !.telemetry_loops = loops]
            /\ csc_written' = <<>>
    /\ TaskRuns
    /\ UNCHANGED sim_vars

\* telemetry_loop from its start to its first sleep, or to its end.
telemetry_loop_start ==
    /\ csc.telemetry_loops.pending > 0
    /\ LoopStep([csc.telemetry_loops EXCEPT !.pending = @ - 1])

\* telemetry_loop from one sleep to the next, or to its end.
telemetry_loop_wake ==
    /\ csc.telemetry_loops.woken > 0
    /\ LoopStep([csc.telemetry_loops EXCEPT !.woken = @ - 1])

\* A sleeping task has slept one tick more.
tick(task) == IF task.at = "sleeping" THEN Task("sleeping", task.slept + 1) ELSE task

\* A tick of the clock: the event loop lets no time pass while a task has a
\* step to take, every sleeping task has slept one tick more, and the sleep
\* of every telemetry loop is over.
csc_tick ==
    /\ ~SomeDue(csc)
    /\ \/ \E name \in TaskNames : csc[name].at = "sleeping"
       \/ csc.telemetry_loops.sleeping > 0
    /\ csc' = [csc EXCEPT !._close_m1_covers_task = tick(@),
                          !._open_m1_covers_task = tick(@),
                          !._close_cell_vents_task = tick(@),
                          !._open_cell_vents_task = tick(@),
                          !.telemetry_loops = Loops(0, 0, @.sleeping)]
    /\ csc_written' = <<>>
    /\ UNCHANGED <<sim_vars, overtakes>>

CscCommand ==
    \/ do_closeM1CellVents
    \/ do_closeM1Cover
    \/ do_openM1CellVents
    \/ do_openM1Cover

\* The tasks of the covers.
CoversTask ==
    \/ close_m1_covers_start
    \/ close_m1_covers_wake
    \/ open_m1_covers_start
    \/ open_m1_covers_wake
    \/ task_cancelled("_close_m1_covers_task")
    \/ task_cancelled("_open_m1_covers_task")

\* The tasks of the vents.
VentsTask ==
    \/ close_cell_vents_start
    \/ close_cell_vents_wake
    \/ open_cell_vents_start
    \/ open_cell_vents_wake
    \/ task_cancelled("_close_cell_vents_task")
    \/ task_cancelled("_open_cell_vents_task")

\* The telemetry loops.
TelemetryTask ==
    \/ telemetry_loop_start
    \/ telemetry_loop_wake

CscNext ==
    \/ csc_start
    \/ handle_summary_state
    \/ CscCommand
    \/ CoversTask
    \/ VentsTask
    \/ TelemetryTask
    \/ csc_tick

\* The CSC with a remote that sends cover and vent commands at any time.
\* The event loop runs a task that has a step to take again and again, and
\* time passes between the commands.
CscFairness ==
    /\ SF_vars(CoversTask)
    /\ SF_vars(VentsTask)
    /\ SF_vars(TelemetryTask)
    /\ SF_vars(csc_tick)

CscSpec == Init /\ [][CscNext]_vars /\ CscFairness

----------------------------------------------------------------------------
(* PneumaticsSimulator and ATPneumaticsCsc side by side (PairSpec).  Both   *)
(* are started with their default configuration.  A valve or set-pressure   *)
(* command is given to both in one step: the simulator takes it through its *)
(* dispatch callback, the CSC through the handler salobj calls for it.  One *)
(* telemetry_interval passes for both in one step: the telemetry loop of    *)
(* the simulator makes one pass, and so does every telemetry loop of the    *)
(* CSC that sleeps (all of them report the same values, since nothing runs  *)
(* between them); outside ENABLED the loops of the CSC end instead.         *)

pair_command ==
    /\ cmd_evt_connected
    /\ pc = "idle"
    /\ cmd_evt_written = <<>>
    /\ data = NoData
    /\ csc.summary_state = "ENABLED"
    /\ ~LoopDue(csc)
    /\ \E d \in TelPayloads(sim) :
          /\ dispatch_callback(d)
          /\ LET name == d.id[1].name
                 w0 == World(csc, <<>>)
                 \* the handler salobj calls for the command
                 w == CASE name = "closeMasterAirSupply" -> do_closeMasterAirSupply(w0)
                        [] name = "openMasterAirSupply"  -> do_openMasterAirSupply(w0)
                        [] name = "m1CloseAirValve"      -> do_m1CloseAirValve(w0)
                        [] name = "m1OpenAirValve"       -> do_m1OpenAirValve(w0)
                        [] name = "m2CloseAirValve"      -> do_m2CloseAirValve(w0)
                        [] name = "m2OpenAirValve"       -> do_m2OpenAirValve(w0)
                        [] name = "m1SetPressure" -> do_m1SetPressure(w0, d.pressure[1])
                        [] name = "m2SetPressure" -> do_m2SetPressure(w0, d.pressure[1])
             IN  /\ csc' = w.self
                 /\ csc_written' = Append(w.out, AckCmd(name, "CMD_COMPLETE"))
    /\ inbox' = <<>>
    /\ UNCHANGED <<cmd_evt_connected, tel_vars, slept, overtakes>>

pair_tick ==
    /\ cmd_evt_connected
    /\ telemetry_loops = 1
    /\ tel_written = <<>>
    /\ csc.telemetry_loops.sleeping > 0
    /\ ~LoopDue(csc)
    /\ LET w == update_telemetry(World(sim, tel_written))
       IN  /\ sim' = w.self
           /\ tel_written' = w.out
    /\ IF csc.summary_state = "ENABLED"
       THEN LET w == csc_telemetry_loop(World(csc, <<>>))
            IN  /\ csc' = w.self
                /\ csc_written' = [i \in 1 .. 4 * csc.telemetry_loops.sleeping |->
                                     w.out[((i - 1) % 4) + 1]]
       ELSE /\ csc' = [csc EXCEPT !.telemetry_loops = Loops(0, 0, 0)]
            /\ csc_written' = <<>>
    /\ UNCHANGED <<cmd_vars, tel_connected, _telemetry_task, telemetry_loops, slept,
                   overtakes>>

PairNext ==
    \/ cmd_evt_connect
    \/ tel_connect
    \/ client_read
    \/ tel_client_read
    \/ csc_start
    \/ handle_summary_state
    \/ telemetry_loop_start
    \/ pair_command
    \/ pair_tick

PairSpec == Init /\ [][PairNext]_vars

----------------------------------------------------------------------------

Next ==
    \/ cmd_evt_connect
    \/ cmd_evt_disconnect
    \/ client_write
    \/ client_read
    \/ read_and_dispatch
    \/ close_m1_cell_vents_wake
    \/ close_m1_cover_wake
    \/ open_m1_cell_vents_wake
    \/ open_m1_cover_wake

Spec == Init /\ [][Next]_vars

TypeOK ==
    /\ sim.last_sequence_id \in 0 .. MaxSeq
    /\ pc \in {"idle", "raised"} \cup SleepLabels
    /\ Len(inbox) <= 1
    /\ client_seq \in -1 .. MaxSeq
    /\ seq_rejected \in BOOLEAN
    /\ valid_received \in BOOLEAN
    /\ Len(data) <= 1
    /\ tel_connected \in BOOLEAN
    /\ _telemetry_task \in {"done", "running"}
    /\ telemetry_loops \in Nat

----------------------------------------------------------------------------
(* Vocabulary of the properties *)

Response(kind, sequence_id) == [id |-> kind, sequence_id |-> sequence_id]

\* The positions of cmd_evt_written that hold a message with this id.
Positions(id) == { i \in 1 .. Len(cmd_evt_written) : cmd_evt_written[i].id = id }

\* The step reads a payload and runs the dispatch callback on it.
ReadStep == data = NoData /\ data' # NoData

\* The payload is a schema-valid command of the dispatch table.
ValidCommand(d) ==
    /\ Known(d)
    /\ d.id[1] \in Command
    /\ validate(d, replace(d.id[1]))

\* The payload carries the sequence id the simulator s expects.
NextInSequence(d, s) == d.sequence_id # <<>> /\ d.sequence_id[1] = s.last_sequence_id + 1

TimedNames == {"closeM1CellVents", "closeM1Cover", "openM1CellVents", "openM1Cover"}

----------------------------------------------------------------------------
(* C1: In PneumaticsSimulator, for every sequence of N schema-valid         *)
(* commands of the dispatch table sent on one connection with sequence ids *)
(* 1..N in order, each command produces exactly one ACK followed later by   *)
(* exactly one SUCCESS, both with the command's sequence id, and no NOACK   *)
(* or FAIL is produced.  client_seq = n >= 1 says that the payload of the   *)
(* current exchange is the n-th such command of the connection.            *)
C1_InOrderAckSuccess ==
    (cmd_evt_connected /\ client_seq >= 1 /\ data # NoData) =>
        /\ cmd_evt_written # <<>>
        /\ cmd_evt_written[1] = Response(Ack.ACK, client_seq)
        /\ Positions(Ack.ACK) = {1}
        /\ Positions(Ack.NOACK) = {}
        /\ Positions(Ack.FAIL) = {}
        /\ IF pc = "idle"
           THEN /\ Positions(Ack.SUCCESS) = {Len(cmd_evt_written)}
                /\ cmd_evt_written[Len(cmd_evt_written)] = Response(Ack.SUCCESS, client_seq)
           ELSE Positions(Ack.SUCCESS) = {}

----------------------------------------------------------------------------
(* C2: A known command whose sequence_id is not last_sequence_id + 1        *)
(* produces exactly one NOACK with that sequence_id and nothing else: no    *)
(* event, no change to any attribute of the simulator, last_sequence_id     *)
(* included; and a following command with sequence_id = last_sequence_id+1  *)
(* is still ACKed.                                                         *)
C2_SequenceGapNoack ==
    [][ ReadStep =>
          LET d == data'[1]
          IN  /\ (Known(d) /\ ~NextInSequence(d, sim)) =>
                    /\ cmd_evt_written' = <<Response(Ack.NOACK, d.sequence_id[1])>>
                    /\ sim' = sim
                    /\ pc' = "idle"
              /\ (seq_rejected /\ ValidCommand(d) /\ NextInSequence(d, sim)) =>
                    /\ cmd_evt_written'[1] = Response(Ack.ACK, d.sequence_id[1])
                    /\ sim'.last_sequence_id = d.sequence_id[1]
      ]_vars

\* A command was refused for its sequence id after another had been
\* accepted, and a later command of the connection has been ACKed.
C2_Witness ==
    /\ seq_rejected
    /\ pc = "idle"
    /\ data # NoData
    /\ sim.last_sequence_id >= 2
    /\ cmd_evt_written[1] = Response(Ack.ACK, sim.last_sequence_id)

----------------------------------------------------------------------------
(* C3: For every accepted command, every event the command causes is       *)
(* written after the command's ACK and before its SUCCESS; for the timed    *)
(* commands SUCCESS is written only after the wait has elapsed and the      *)
(* settled events have been written.                                       *)

\* The last event of the settled events of a timed command.
SettledEvent(name) ==
    CASE name = "closeM1CellVents" -> [id |-> Event.CELLVENTSTATE, state |-> "CLOSED"]
      [] name = "openM1CellVents" -> [id |-> Event.CELLVENTSTATE, state |-> "OPENED"]
      [] name = "closeM1Cover" -> [id |-> Event.M1COVERSTATE, state |-> "CLOSED"]
      [] name = "openM1Cover" -> [id |-> Event.M1COVERSTATE, state |-> "OPENED"]

C3_EventsBetweenAckAndSuccess ==
    (data # NoData /\ cmd_evt_written # <<>> /\ cmd_evt_written[1].id = Ack.ACK) =>
        LET n == Len(cmd_evt_written)
            name == data[1].id[1].name
        IN  /\ \A i \in 2 .. n :
                  \/ cmd_evt_written[i].id \in EventIds
                  \/ /\ cmd_evt_written[i] = Response(Ack.SUCCESS, data[1].sequence_id[1])
                     /\ i = n
                     /\ pc = "idle"
            /\ pc = "idle" => cmd_evt_written[n].id = Ack.SUCCESS
            /\ (pc \in SleepLabels /\ name \in TimedNames) =>
                  \A i \in 1 .. n : cmd_evt_written[i] # SettledEvent(name)
            /\ (pc = "idle" /\ name \in TimedNames /\ n > 2) =>
                  cmd_evt_written[n - 1] = SettledEvent(name)

\* A timed command has slept, settled and answered SUCCESS.
C3_Witness ==
    /\ pc = "idle"
    /\ data # NoData
    /\ data[1].id = <<Id("cmd_", "closeM1Cover")>>
    /\ Len(cmd_evt_written) = 6
    /\ cmd_evt_written[1].id = Ack.ACK
    /\ cmd_evt_written[3] = [id |-> Event.M1COVERSTATE, state |-> "INMOTION"]
    /\ cmd_evt_written[6].id = Ack.SUCCESS

----------------------------------------------------------------------------
----------------------------------------------------------------------------
(* C5: A payload that names a registered command with sequence_id =        *)
(* last_sequence_id + 1 but fails schema validation is answered with a      *)
(* NOACK and does not reach the dispatcher: no ACK, no handler, no event,   *)
(* no change of a device state field.                                      *)
C5_SchemaFailureNoack ==
    [][ ReadStep =>
          LET d == data'[1]
          IN  (Known(d) /\ NextInSequence(d, sim) /\ ~validate(d, replace(d.id[1]))) =>
                  /\ cmd_evt_written' = <<Response(Ack.NOACK, d.sequence_id[1])>>
                  /\ DeviceState(sim') = DeviceState(sim)
                  /\ pc' = "idle"
      ]_vars

\* m1SetPressure without a pressure passed the sequence check and was refused.
C5_Witness ==
    /\ pc = "idle"
    /\ data # NoData
    /\ data[1].id = <<Id("cmd_", "m1SetPressure")>>
    /\ data[1].pressure = <<>>
    /\ data[1].sequence_id = <<sim.last_sequence_id>>
    /\ cmd_evt_written = <<Response(Ack.NOACK, sim.last_sequence_id)>>

----------------------------------------------------------------------------
(* C6: A malformed payload is answered with a NOACK with its sequence_id   *)
(* when it has one; a payload without sequence_id is dropped, nothing is    *)
(* written and no error leaves the dispatch callback, and the simulator     *)
(* goes on with unchanged state.                                           *)

Malformed(d) ==
    \/ d.id = <<>>
    \/ d.sequence_id = <<>>
    \/ (Known(d) /\ ~validate(d, replace(d.id[1])))

C6_MalformedNoackOrDropped ==
    [][ ReadStep =>
          LET d == data'[1]
          IN  Malformed(d) =>
                  /\ pc' = "idle"
                  /\ DeviceState(sim') = DeviceState(sim)
                  /\ cmd_evt_written' =
                        IF d.sequence_id # <<>>
                        THEN <<Response(Ack.NOACK, d.sequence_id[1])>>
                        ELSE <<>>
      ]_vars

----------------------------------------------------------------------------
(* C7: Supersession: when openM1Cover with the next sequence id is sent    *)
(* while a closeM1Cover transition is in flight, the close is cancelled:    *)
(* no close-settled event (m1CoverState CLOSED) is ever written for it.     *)
(* The payload in inbox was written while the close handler slept.         *)
C7_SupersessionCancelsClose ==
    ( /\ data # NoData
      /\ data[1].id = <<Id("cmd_", "closeM1Cover")>>
      /\ [id |-> Event.M1COVERSTATE, state |-> "INMOTION"] \in
             { cmd_evt_written[i] : i \in 1 .. Len(cmd_evt_written) }
      /\ inbox = <<Payload(<<Id("cmd_", "openM1Cover")>>, <<sim.last_sequence_id + 1>>, <<>>)>> )
    => [id |-> Event.M1COVERSTATE, state |-> "CLOSED"] \notin
             { cmd_evt_written[i] : i \in 1 .. Len(cmd_evt_written) }

----------------------------------------------------------------------------
(* C8: Idempotence: a close command accepted while the OpenCloseState of   *)
(* its actuator group is CLOSED or CLOSING, and an open command accepted    *)
(* while it is OPEN or OPENING, is answered ACK then SUCCESS with no event  *)
(* in between and leaves every device state field unchanged.               *)

Redundant(d, s) ==
    LET name == d.id[1].name
    IN  \/ name = "closeM1Cover" /\ s.m1_covers_state \in {"CLOSED", "CLOSING"}
        \/ name = "closeM1CellVents" /\ s.m1_vents_state \in {"CLOSED", "CLOSING"}
        \/ name = "openM1Cover" /\ s.m1_covers_state \in {"OPEN", "OPENING"}
        \/ name = "openM1CellVents" /\ s.m1_vents_state \in {"OPEN", "OPENING"}

C8_RedundantCommandNoEvent ==
    [][ ReadStep =>
          LET d == data'[1]
          IN  (ValidCommand(d) /\ NextInSequence(d, sim) /\ Redundant(d, sim)) =>
                  /\ cmd_evt_written' = <<Response(Ack.ACK, d.sequence_id[1]),
                                          Response(Ack.SUCCESS, d.sequence_id[1])>>
                  /\ DeviceState(sim') = DeviceState(sim)
                  /\ pc' = "idle"
      ]_vars

\* closeM1Cover on closed covers was answered ACK, SUCCESS.
C8_Witness ==
    /\ pc = "idle"
    /\ data # NoData
    /\ data[1].id = <<Id("cmd_", "closeM1Cover")>>
    /\ sim.m1_covers_state = "CLOSED"
    /\ cmd_evt_written = <<Response(Ack.ACK, sim.last_sequence_id),
                           Response(Ack.SUCCESS, sim.last_sequence_id)>>

----------------------------------------------------------------------------
(* C9: openM1CellVents accepted after connection with the vents CLOSED     *)
(* (OpenCloseState and reported position) writes exactly: ACK,             *)
(* cellVentsState INMOTION, m1VentsLimitSwitches (false, false),           *)
(* m1VentsPosition PARTIALLYOPENED, cellVentsState INMOTION, then after the *)
(* open wait m1VentsLimitSwitches (false, true), m1VentsPosition OPENED,    *)
(* cellVentsState OPENED, SUCCESS.                                         *)

OpenVentsInMotion(sequence_id) ==
    << Response(Ack.ACK, sequence_id),
       [id |-> Event.CELLVENTSTATE, state |-> "INMOTION"],
       [id |-> Event.M1VENTSLIMITSWITCHES,
        ventsClosedActive |-> FALSE, ventsOpenedActive |-> FALSE],
       [id |-> Event.M1VENTSPOSITION, position |-> "PARTIALLYOPENED"],
       [id |-> Event.CELLVENTSTATE, state |-> "INMOTION"] >>

OpenVentsSettled(sequence_id) ==
    << [id |-> Event.M1VENTSLIMITSWITCHES,
        ventsClosedActive |-> FALSE, ventsOpenedActive |-> TRUE],
       [id |-> Event.M1VENTSPOSITION, position |-> "OPENED"],
       [id |-> Event.CELLVENTSTATE, state |-> "OPENED"],
       Response(Ack.SUCCESS, sequence_id) >>

C9_OpenCellVentsSequence ==
    [][ /\ ReadStep =>
             LET d == data'[1]
             IN  ( /\ ValidCommand(d) /\ NextInSequence(d, sim)
                   /\ d.id[1].name = "openM1CellVents"
                   /\ sim.m1_vents_state = "CLOSED"
                   /\ sim.m1_vents_position = "CLOSED" ) =>
                     /\ cmd_evt_written' = OpenVentsInMotion(d.sequence_id[1])
                     /\ pc' = "open_m1_cell_vents_sleep"
        /\ (pc = "open_m1_cell_vents_sleep" /\ pc' # pc) =>
             /\ pc' = "idle"
             /\ cmd_evt_written' = OpenVentsInMotion(data[1].sequence_id[1])
                                      \o OpenVentsSettled(data[1].sequence_id[1])
      ]_vars

\* The whole sequence has been written.
C9_Witness ==
    /\ pc = "idle"
    /\ data # NoData
    /\ data[1].id = <<Id("cmd_", "openM1CellVents")>>
    /\ Len(cmd_evt_written) = 9
    /\ cmd_evt_written[9] = Response(Ack.SUCCESS, data[1].sequence_id[1])

----------------------------------------------------------------------------
(* C10: openM1Cover accepted after connection with the covers CLOSED       *)
(* (OpenCloseState and reported state) writes exactly: ACK,                *)
(* m1CoverLimitSwitches with all eight fields false, m1CoverState INMOTION, *)
(* then after the open wait m1CoverLimitSwitches with the four closed       *)
(* fields false and the four opened fields true, m1CoverState OPENED,       *)
(* SUCCESS.                                                                *)

CoverLimitSwitchesEvent(closed, opened) ==
    [ id |-> Event.M1COVERLIMITSWITCHES,
      cover1ClosedActive |-> closed, cover2ClosedActive |-> closed,
      cover3ClosedActive |-> closed, cover4ClosedActive |-> closed,
      cover1OpenedActive |-> opened, cover2OpenedActive |-> opened,
      cover3OpenedActive |-> opened, cover4OpenedActive |-> opened ]

OpenCoverInMotion(sequence_id) ==
    << Response(Ack.ACK, sequence_id),
       CoverLimitSwitchesEvent(FALSE, FALSE),
       [id |-> Event.M1COVERSTATE, state |-> "INMOTION"] >>

OpenCoverSettled(sequence_id) ==
    << CoverLimitSwitchesEvent(FALSE, TRUE),
       [id |-> Event.M1COVERSTATE, state |-> "OPENED"],
       Response(Ack.SUCCESS, sequence_id) >>

C10_OpenCoverSequence ==
    [][ /\ ReadStep =>
             LET d == data'[1]
             IN  ( /\ ValidCommand(d) /\ NextInSequence(d, sim)
                   /\ d.id[1].name = "openM1Cover"
                   /\ sim.m1_covers_state = "CLOSED"
                   /\ sim.m1_cover_state = "CLOSED" ) =>
                     /\ cmd_evt_written' = OpenCoverInMotion(d.sequence_id[1])
                     /\ pc' = "open_m1_cover_sleep"
        /\ (pc = "open_m1_cover_sleep" /\ pc' # pc) =>
             /\ pc' = "idle"
             /\ cmd_evt_written' = OpenCoverInMotion(data[1].sequence_id[1])
                                      \o OpenCoverSettled(data[1].sequence_id[1])
      ]_vars

\* The whole sequence has been written.
C10_Witness ==
    /\ pc = "idle"
    /\ data # NoData
    /\ data[1].id = <<Id("cmd_", "openM1Cover")>>
    /\ Len(cmd_evt_written) = 6
    /\ cmd_evt_written[6] = Response(Ack.SUCCESS, data[1].sequence_id[1])

----------------------------------------------------------------------------
(* C11: A close command accepted while the OpenCloseState of its actuator  *)
(* group is OPEN but the reported position (vents) or state (covers) is     *)
(* already CLOSED writes only the settled events between ACK and SUCCESS    *)
(* (vents: m1VentsLimitSwitches, m1VentsPosition, cellVentsState; covers:   *)
(* m1CoverLimitSwitches, m1CoverState), no in-motion event, does not wait,  *)
(* and leaves the OpenCloseState CLOSED.                                   *)

CloseVentsSettledOnly(sequence_id) ==
    << Response(Ack.ACK, sequence_id),
       [id |-> Event.M1VENTSLIMITSWITCHES,
        ventsClosedActive |-> TRUE, ventsOpenedActive |-> FALSE],
       [id |-> Event.M1VENTSPOSITION, position |-> "CLOSED"],
       [id |-> Event.CELLVENTSTATE, state |-> "CLOSED"],
       Response(Ack.SUCCESS, sequence_id) >>

CloseCoverSettledOnly(sequence_id) ==
    << Response(Ack.ACK, sequence_id),
       CoverLimitSwitchesEvent(TRUE, FALSE),
       [id |-> Event.M1COVERSTATE, state |-> "CLOSED"],
       Response(Ack.SUCCESS, sequence_id) >>

C11_CloseWhenReportedClosed ==
    [][ ReadStep =>
          LET d == data'[1]
          IN  /\ ( /\ ValidCommand(d) /\ NextInSequence(d, sim)
                   /\ d.id[1].name = "closeM1CellVents"
                   /\ sim.m1_vents_state = "OPEN"
                   /\ sim.m1_vents_position = "CLOSED" ) =>
                     /\ cmd_evt_written' = CloseVentsSettledOnly(d.sequence_id[1])
                     /\ pc' = "idle"
                     /\ sim'.m1_vents_state = "CLOSED"
              /\ ( /\ ValidCommand(d) /\ NextInSequence(d, sim)
                   /\ d.id[1].name = "closeM1Cover"
                   /\ sim.m1_covers_state = "OPEN"
                   /\ sim.m1_cover_state = "CLOSED" ) =>
                     /\ cmd_evt_written' = CloseCoverSettledOnly(d.sequence_id[1])
                     /\ pc' = "idle"
                     /\ sim'.m1_covers_state = "CLOSED"
      ]_vars

\* closeM1CellVents has written the settled events only: five messages,
\* where a close of vents that report OPENED writes nine.
C11_Witness ==
    /\ pc = "idle"
    /\ data # NoData
    /\ data[1].id = <<Id("cmd_", "closeM1CellVents")>>
    /\ cmd_evt_written = CloseVentsSettledOnly(data[1].sequence_id[1])
    /\ sim.m1_vents_state = "CLOSED"

----------------------------------------------------------------------------
(* C12: Each time a command/event client connects, exactly 13 events are   *)
(* written before any command response, one for each member of Event and    *)
(* none twice; afterwards the instrument, M1, M2 and main valves are        *)
(* OPENED, covers and vents report CLOSED with the closed limit switches    *)
(* active and the opened ones inactive, the three power lines are on and    *)
(* eStop is not triggered.                                                 *)

\* The step in which a command/event client connects.
ConnectStep == ~cmd_evt_connected /\ cmd_evt_connected'

C12_ConnectWritesAllEvents ==
    [][ ConnectStep =>
          /\ Len(cmd_evt_written') = 13
          /\ \A e \in EventIds :
                Cardinality({ i \in 1 .. 13 : cmd_evt_written'[i].id = e }) = 1
          /\ sim'.instrument_state = "OPENED"
          /\ sim'.m1_state = "OPENED"
          /\ sim'.m2_state = "OPENED"
          /\ sim'.main_valve_state = "OPENED"
          /\ sim'.m1_cover_state = "CLOSED"
          /\ sim'.m1_cover_limit_switches =
                [ cover1ClosedActive |-> TRUE, cover2ClosedActive |-> TRUE,
                  cover3ClosedActive |-> TRUE, cover4ClosedActive |-> TRUE,
                  cover1OpenedActive |-> FALSE, cover2OpenedActive |-> FALSE,
                  cover3OpenedActive |-> FALSE, cover4OpenedActive |-> FALSE ]
          /\ sim'.cell_vents_state = "CLOSED"
          /\ sim'.m1_vents_position = "CLOSED"
          /\ sim'.m1_vents_limit_switches =
                [ventsClosedActive |-> TRUE, ventsOpenedActive |-> FALSE]
          /\ sim'.power_status =
                [powerOnL1 |-> TRUE, powerOnL2 |-> TRUE, powerOnL3 |-> TRUE]
          /\ sim'.e_stop = FALSE
      ]_vars

\* A client has connected after an earlier client had opened the covers and
\* closed the main valve: the 13 events are there and nothing has been read.
C12_Witness ==
    /\ cmd_evt_connected
    /\ data = NoData
    /\ Len(cmd_evt_written) = 13
    /\ sim.last_sequence_id >= 2
    /\ sim.m1_covers_state = "OPEN"
    /\ sim.m1_cover_state = "CLOSED"
    /\ sim.main_valve_state = "OPENED"

----------------------------------------------------------------------------
(* C13: Derived telemetry: on every telemetry tick, for every combination  *)
(* of valve states and set-pressures, the emitted m1AirPressure.pressure    *)
(* is the M1 set-pressure if the main valve and the M1 valve are both       *)
(* OPENED and 0 otherwise, and likewise m2AirPressure.pressure with the M2  *)
(* valve and the M2 set-pressure; after an accepted m1SetPressure{p} with   *)
(* the main and M1 valves open the next tick reports p.                     *)

\* The step writes to the telemetry client.
TelWriteStep == tel_written' # tel_written /\ tel_written' # <<>>

\* The i-th record the step writes.
Emitted(i) == tel_written'[Len(tel_written) + i]

C13_DerivedTelemetry ==
    [][ TelWriteStep =>
          /\ Emitted(1) =
                [ id |-> Telemetry.M1_AIR_PRESSURE,
                  pressure |-> IF sim.main_valve_state = "OPENED" /\ sim.m1_state = "OPENED"
                               THEN sim.m1_pressure ELSE 0 ]
          /\ Emitted(2) =
                [ id |-> Telemetry.M2_AIR_PRESSURE,
                  pressure |-> IF sim.main_valve_state = "OPENED" /\ sim.m2_state = "OPENED"
                               THEN sim.m2_pressure ELSE 0 ]
          /\ ( /\ data # NoData
               /\ data[1].id = <<Id("cmd_", "m1SetPressure")>>
               /\ cmd_evt_written # <<>>
               /\ cmd_evt_written[1].id = Ack.ACK
               /\ sim.main_valve_state = "OPENED"
               /\ sim.m1_state = "OPENED" ) =>
                 Emitted(1).pressure = data[1].pressure[1]
      ]_vars

\* m1SetPressure{35} was accepted and a tick reported 35; then the main valve
\* was closed and the next tick reported 0.
C13_Witness ==
    /\ sim.m1_pressure = 35
    /\ sim.m1_state = "OPENED"
    /\ sim.main_valve_state = "CLOSED"
    /\ Len(tel_written) = 8
    /\ tel_written[1] = [id |-> Telemetry.M1_AIR_PRESSURE, pressure |-> 35]
    /\ tel_written[5] = [id |-> Telemetry.M1_AIR_PRESSURE, pressure |-> 0]

----------------------------------------------------------------------------
(* C14: Every tick of the telemetry loop writes exactly four telemetry     *)
(* records on the telemetry channel, in the order m1AirPressure,            *)
(* m2AirPressure, mainAirSourcePressure, loadCell, whether or not a value   *)
(* has changed since the tick before; no telemetry record is written on the *)
(* command/event channel and no event or acknowledgment on the telemetry    *)
(* channel.                                                                *)
C14_FourRecordsEveryTick ==
    [][ /\ TelWriteStep =>
             /\ Len(tel_written') = Len(tel_written) + 4
             /\ SubSeq(tel_written', 1, Len(tel_written)) = tel_written
             /\ Emitted(1).id = Telemetry.M1_AIR_PRESSURE
             /\ Emitted(2).id = Telemetry.M2_AIR_PRESSURE
             /\ Emitted(3).id = Telemetry.MAIN_AIR_SOURCE_PRESSURE
             /\ Emitted(4).id = Telemetry.LOAD_CELL
        /\ ( \/ sim'.m1_air_pressure # sim.m1_air_pressure
             \/ sim'.m2_air_pressure # sim.m2_air_pressure ) => TelWriteStep
        /\ \A i \in 1 .. Len(cmd_evt_written') : cmd_evt_written'[i].id \notin TelemetryIds
        /\ \A i \in 1 .. Len(tel_written') : tel_written'[i].id \in TelemetryIds
      ]_vars

\* Two ticks in a row have written the same four records.
C14_Witness ==
    /\ Len(tel_written) = 8
    /\ SubSeq(tel_written, 1, 4) = SubSeq(tel_written, 5, 8)
    /\ cmd_evt_connected
    /\ sim.last_sequence_id >= 1

----------------------------------------------------------------------------
(* C15: After every re-initialization on a command connection (configure   *)
(* followed by initialize, run on each connect), whatever commands earlier  *)
(* connections processed, both actuator groups are in the CLOSED state:     *)
(* m1_covers_state = CLOSED and m1_vents_state = CLOSED, as at              *)
(* construction.                                                           *)
C15_ReinitializedClosed ==
    [][ ConnectStep =>
          /\ sim'.m1_covers_state = "CLOSED"
          /\ sim'.m1_vents_state = "CLOSED"
      ]_vars

----------------------------------------------------------------------------
(* C16: Command ordering is per connection: after a command client has     *)
(* disconnected and a new one has connected, the sequence counter starts    *)
(* afresh, so the first command of the new connection, with sequence id 1,  *)
(* is ACKed however many commands the connection before had accepted.       *)
(* client_seq = 0 says that the connection has read no payload yet.         *)
C16_SequencePerConnection ==
    [][ (ReadStep /\ client_seq = 0) =>
          LET d == data'[1]
          IN  (ValidCommand(d) /\ d.sequence_id = <<1>>) =>
                  cmd_evt_written'[1] = Response(Ack.ACK, 1)
      ]_vars

----------------------------------------------------------------------------
(* C17: The first known, schema-valid command a newly constructed          *)
(* simulator receives is accepted (ACKed) whatever its sequence id, and     *)
(* seeds the counter: afterwards last_sequence_id is that sequence id.      *)
C17_FirstCommandSeedsCounter ==
    [][ (ReadStep /\ ~valid_received) =>
          LET d == data'[1]
          IN  ValidCommand(d) =>
                  /\ cmd_evt_written'[1] = Response(Ack.ACK, d.sequence_id[1])
                  /\ sim'.last_sequence_id = d.sequence_id[1]
      ]_vars

----------------------------------------------------------------------------
(* C18: The cover and vent actuator groups run independently and may be in *)
(* motion at the same time: a command that sets the vents in motion, sent   *)
(* with the next sequence id while the covers are in motion, is taken up    *)
(* while the covers still move, so that the OpenCloseState of both groups   *)
(* is OPENING or CLOSING at once.  Stated on the step in which the covers   *)
(* settle: no such command is still waiting to be read then.               *)

\* The payload is a command that sets the vents of simulator s in motion.
MovesVents(d, s) ==
    /\ ValidCommand(d)
    /\ NextInSequence(d, s)
    /\ \/ d.id[1].name = "openM1CellVents" /\ s.m1_vents_state = "CLOSED"
       \/ d.id[1].name = "closeM1CellVents" /\ s.m1_vents_state = "OPEN"

----------------------------------------------------------------------------
(* C19: Events are written strictly on state change: within one            *)
(* connection no event message is written whose field values equal those   *)
(* of the message of the same event id before it (a valve-open command on   *)
(* an open valve, or the cellVentsState of an in-motion step, never repeats *)
(* the value written last).                                                *)

\* The message of event id e that reports the attributes of simulator s.
EventOf(s, e) ==
    CASE e = Event.CELLVENTSTATE -> [id |-> e, state |-> s.cell_vents_state]
      [] e = Event.ESTOP -> [id |-> e, triggered |-> s.e_stop]
      [] e = Event.INSTRUMENTSTATE -> [id |-> e, state |-> s.instrument_state]
      [] e = Event.M1COVERLIMITSWITCHES -> [id |-> e] @@ s.m1_cover_limit_switches
      [] e = Event.M1COVERSTATE -> [id |-> e, state |-> s.m1_cover_state]
      [] e = Event.M1SETPRESSURE -> [id |-> e, pressure |-> s.m1_pressure]
      [] e = Event.M1STATE -> [id |-> e, state |-> s.m1_state]
      [] e = Event.M1VENTSLIMITSWITCHES -> [id |-> e] @@ s.m1_vents_limit_switches
      [] e = Event.M1VENTSPOSITION -> [id |-> e, position |-> s.m1_vents_position]
      [] e = Event.M2STATE -> [id |-> e, state |-> s.m2_state]
      [] e = Event.M2SETPRESSURE -> [id |-> e, pressure |-> s.m2_pressure]
      [] e = Event.MAINVALVESTATE -> [id |-> e, state |-> s.main_valve_state]
      [] e = Event.POWERSTATUS -> [id |-> e] @@ s.power_status

Last(S) == CHOOSE j \in S : \A k \in S : k <= j

\* The positions of cmd_evt_written' that the step has written.
WrittenPositions ==
    IF cmd_evt_written' = cmd_evt_written THEN {}
    ELSE IF pc \in SleepLabels
         THEN (Len(cmd_evt_written) + 1) .. Len(cmd_evt_written')
         ELSE 1 .. Len(cmd_evt_written')

----------------------------------------------------------------------------
(* C20: Each of the ten instantaneous commands (open and close of the      *)
(* instrument, M1, M2 and main valves, m1SetPressure, m2SetPressure) sets   *)
(* exactly one device state field, the valve state or set-pressure it       *)
(* addresses, to the commanded value, writes exactly one event, for that    *)
(* field, then SUCCESS; every other state field, the actuator states and    *)
(* last_sequence_id are left as they are by the handler.                    *)

InstantaneousNames == CommandNames \ TimedNames

\* The simulator s after the instantaneous command d, and the event written.
Commanded(s, d) ==
    LET name == d.id[1].name
        Is(self, evt) == [self |-> self, evt |-> evt]
    IN  CASE name = "closeInstrumentAirValve" ->
               Is([s EXCEPT !.instrument_state = "CLOSED"],
                  [id |-> Event.INSTRUMENTSTATE, state |-> "CLOSED"])
          [] name = "openInstrumentAirValve" ->
               Is([s EXCEPT !.instrument_state = "OPENED"],
                  [id |-> Event.INSTRUMENTSTATE, state |-> "OPENED"])
          [] name = "m1CloseAirValve" ->
               Is([s EXCEPT !.m1_state = "CLOSED"],
                  [id |-> Event.M1STATE, state |-> "CLOSED"])
          [] name = "m1OpenAirValve" ->
               Is([s EXCEPT !.m1_state = "OPENED"],
                  [id |-> Event.M1STATE, state |-> "OPENED"])
          [] name = "m2CloseAirValve" ->
               Is([s EXCEPT !.m2_state = "CLOSED"],
                  [id |-> Event.M2STATE, state |-> "CLOSED"])
          [] name = "m2OpenAirValve" ->
               Is([s EXCEPT !.m2_state = "OPENED"],
                  [id |-> Event.M2STATE, state |-> "OPENED"])
          [] name = "closeMasterAirSupply" ->
               Is([s EXCEPT !.main_valve_state = "CLOSED"],
                  [id |-> Event.MAINVALVESTATE, state |-> "CLOSED"])
          [] name = "openMasterAirSupply" ->
               Is([s EXCEPT !.main_valve_state = "OPENED"],
                  [id |-> Event.MAINVALVESTATE, state |-> "OPENED"])
          [] name = "m1SetPressure" ->
               Is([s EXCEPT !.m1_pressure = d.pressure[1]],
                  [id |-> Event.M1SETPRESSURE, pressure |-> d.pressure[1]])
          [] name = "m2SetPressure" ->
               Is([s EXCEPT !.m2_pressure = d.pressure[1]],
                  [id |-> Event.M2SETPRESSURE, pressure |-> d.pressure[1]])

C20_InstantaneousOneField ==
    [][ ReadStep =>
          LET d == data'[1]
          IN  ( /\ ValidCommand(d) /\ NextInSequence(d, sim)
                /\ d.id[1].name \in InstantaneousNames ) =>
                  /\ cmd_evt_written' = << Response(Ack.ACK, d.sequence_id[1]),
                                           Commanded(sim, d).evt,
                                           Response(Ack.SUCCESS, d.sequence_id[1]) >>
                  /\ sim' = [Commanded(sim, d).self EXCEPT
                                !.last_sequence_id = d.sequence_id[1]]
                  /\ pc' = "idle"
      ]_vars

\* m2SetPressure{35} has changed the M2 set-pressure and nothing else of what
\* the connect callback had set.
C20_Witness ==
    /\ pc = "idle"
    /\ data # NoData
    /\ data[1].id = <<Id("cmd_", "m2SetPressure")>>
    /\ data[1].pressure = <<35>>
    /\ cmd_evt_written = << Response(Ack.ACK, sim.last_sequence_id),
                            [id |-> Event.M2SETPRESSURE, pressure |-> 35],
                            Response(Ack.SUCCESS, sim.last_sequence_id) >>
    /\ sim.m2_pressure = 35
    /\ sim.m1_pressure = DEFAULT_M1_PRESSURE
    /\ sim.m2_state = "OPENED"


----------------------------------------------------------------------------
(* C21: configure() rejects, with an assertion failure before any field is *)
(* assigned or event written, every call in which one of the four          *)
(* transition times m1_covers_close_time, m1_covers_open_time,             *)
(* cell_vents_close_time, cell_vents_open_time is negative or one of       *)
(* m1_pressure, m2_pressure, main_pressure, cell_load is not positive; so  *)
(* after any sequence of configure calls the four stored transition times  *)
(* are >= 0 (and the stored pressures and the cell load are > 0 once       *)
(* configure has assigned them).                                           *)
C21_ConfigureRejectsInvalid ==
    /\ sim.m1_covers_close_time >= 0
    /\ sim.m1_covers_open_time >= 0
    /\ sim.cell_vents_close_time >= 0
    /\ sim.cell_vents_open_time >= 0
    /\ cmd_evt_connected =>
         /\ sim.m1_pressure > 0
         /\ sim.m2_pressure > 0
         /\ sim.main_air_source_pressure.pressure > 0
         /\ sim.load_cell.cellLoad > 0


----------------------------------------------------------------------------
----------------------------------------------------------------------------
(* C23: In PneumaticsSimulator every command that has been ACKed receives  *)
(* exactly one terminal acknowledgment with the same sequence id: SUCCESS  *)
(* when its handler completes normally, and FAIL (distinct from NOACK)     *)
(* when its handler raises after the ACK; FAIL is never written for a      *)
(* command whose handler completed normally.  cmd_evt_written holds what   *)
(* has been written since the payload of the exchange was read.            *)

\* The positions of the terminal acknowledgments with this sequence id.
Terminal(sequence_id) ==
    { j \in 1 .. Len(cmd_evt_written) :
        cmd_evt_written[j] \in { Response(Ack.SUCCESS, sequence_id),
                                 Response(Ack.FAIL, sequence_id) } }

----------------------------------------------------------------------------
(* C24: In every reachable state of PneumaticsSimulator no limit-switch    *)
(* pair has closed and opened active together: for each of the four cover  *)
(* petals not (coverNClosedActive and coverNOpenedActive), for the vents   *)
(* not (ventsClosedActive and ventsOpenedActive), the four petals always   *)
(* hold identical values, m1_cover_state is never INVALID, and             *)
(* m1_cover_state is INMOTION exactly when all cover switches are false,   *)
(* OPENED exactly when the opened switches are active, CLOSED exactly when *)
(* the closed switches are active.                                         *)

\* The four petals report this pair of values.
Petals(switches, closed, opened) ==
    /\ switches.cover1ClosedActive = closed /\ switches.cover1OpenedActive = opened
    /\ switches.cover2ClosedActive = closed /\ switches.cover2OpenedActive = opened
    /\ switches.cover3ClosedActive = closed /\ switches.cover3OpenedActive = opened
    /\ switches.cover4ClosedActive = closed /\ switches.cover4OpenedActive = opened

C24_LimitSwitchesConsistent ==
    LET covers == sim.m1_cover_limit_switches
        vents == sim.m1_vents_limit_switches
    IN  /\ \E closed, opened \in BOOLEAN :
              /\ ~(closed /\ opened)
              /\ Petals(covers, closed, opened)
        /\ ~(vents.ventsClosedActive /\ vents.ventsOpenedActive)
        /\ sim.m1_cover_state # "INVALID"
        /\ sim.m1_cover_state = "INMOTION" <=> Petals(covers, FALSE, FALSE)
        /\ sim.m1_cover_state = "OPENED" <=> Petals(covers, FALSE, TRUE)
        /\ sim.m1_cover_state = "CLOSED" <=> Petals(covers, TRUE, FALSE)


----------------------------------------------------------------------------
(* C25: In ATPneumaticsCsc, when a cover or vent transition task is        *)
(* cancelled mid-flight by the opposite-direction command (do_openM1Cover  *)
(* during close_m1_covers, do_closeM1Cover during open_m1_covers, and the  *)
(* same for the cell vents), the cancelled task never performs its settled *)
(* set_*_events call: after the cancellation no settled value of the       *)
(* cancelled direction is set until a later command of that direction runs *)
(* to completion, and the superseding task eventually sets the settled     *)
(* value of its own direction.                                             *)

\* The data of the cover and vent events.
CoverVentEvents(c) ==
    << c.evt_m1CoverLimitSwitches, c.evt_m1CoverState, c.evt_cellVentsState,
       c.evt_m1VentsLimitSwitches, c.evt_m1VentsPosition >>

\* The task is in flight: started, not done and not cancelled.
Running(c, task) == c[task].at \in {"pending", "sleeping"}

\* The step has a command start the task `superseding` while `cancelled` is
\* in flight.
Supersedes(superseding, cancelled) ==
    /\ Running(csc, cancelled)
    /\ csc[superseding].at = "done"
    /\ csc'[superseding].at # "done"

\* The step is the handler of a command.
CommandStep == csc_written' # <<>> /\ csc_written'[1].id = "ackcmd"

\* The step is the one the task ends with by itself, running to completion.
Completes(task) ==
    /\ Running(csc, task)
    /\ csc'[task] = make_done_future
    /\ ~CommandStep

\* The step sets the topic to this value, which it did not have.
Sets(topic, d) == csc.started /\ csc[topic] # <<d>> /\ csc'[topic] = <<d>>

CoversSettled(state) == csc.evt_m1CoverState = <<[state |-> state]>>

VentsSettled(position) == csc.evt_m1VentsPosition = <<[position |-> position]>>

\* What the claim says of a step.
CancelledNeverSettles ==
    /\ \A pair \in { <<"_open_m1_covers_task", "_close_m1_covers_task">>,
                     <<"_close_m1_covers_task", "_open_m1_covers_task">>,
                     <<"_open_cell_vents_task", "_close_cell_vents_task">>,
                     <<"_close_cell_vents_task", "_open_cell_vents_task">> } :
          Supersedes(pair[1], pair[2]) =>
             /\ csc'[pair[2]].at = "cancelling"
             /\ CoverVentEvents(csc') = CoverVentEvents(csc)
    /\ Sets("evt_m1CoverState", [state |-> "CLOSED"]) =>
          (Completes("_close_m1_covers_task") /\ ~Running(csc', "_open_m1_covers_task"))
    /\ Sets("evt_m1CoverState", [state |-> "OPENED"]) =>
          (Completes("_open_m1_covers_task") /\ ~Running(csc', "_close_m1_covers_task"))
    /\ Sets("evt_m1VentsPosition", [position |-> "CLOSED"]) =>
          (Completes("_close_cell_vents_task") /\ ~Running(csc', "_open_cell_vents_task"))
    /\ Sets("evt_m1VentsPosition", [position |-> "OPENED"]) =>
          (Completes("_open_cell_vents_task") /\ ~Running(csc', "_close_cell_vents_task"))

\* A task of this direction has been started while the group was in motion:
\* it has superseded the task of the other direction.
SupersedingCovers(task) == csc[task].at = "pending" /\ CoversSettled("INMOTION")

SupersedingVents(task) == csc[task].at = "pending" /\ VentsSettled("PARTIALLYOPENED")

C25_SupersedingTaskSettles ==
    /\ [][CancelledNeverSettles]_vars
    /\ SupersedingCovers("_open_m1_covers_task") ~> CoversSettled("OPENED")
    /\ SupersedingCovers("_close_m1_covers_task") ~> CoversSettled("CLOSED")
    /\ SupersedingVents("_open_cell_vents_task") ~> VentsSettled("OPENED")
    /\ SupersedingVents("_close_cell_vents_task") ~> VentsSettled("CLOSED")

(* C25 as amended: the same, and the superseding task eventually sets the  *)
(* settled value of its own direction unless a later command of the        *)
(* opposite direction cancels it in its turn.                              *)
C25_CancelledTaskNeverSettles ==
    /\ [][CancelledNeverSettles]_vars
    /\ Running(csc, "_open_m1_covers_task") ~>
          (CoversSettled("OPENED") \/ csc._open_m1_covers_task.at = "cancelling")
    /\ Running(csc, "_close_m1_covers_task") ~>
          (CoversSettled("CLOSED") \/ csc._close_m1_covers_task.at = "cancelling")
    /\ Running(csc, "_open_cell_vents_task") ~>
          (VentsSettled("OPENED") \/ csc._open_cell_vents_task.at = "cancelling")
    /\ Running(csc, "_close_cell_vents_task") ~>
          (VentsSettled("CLOSED") \/ csc._close_cell_vents_task.at = "cancelling")

\* openM1Cover has just cancelled the closing task in its sleep: the covers
\* are in motion and the opening task has not started.
C25_Witness ==
    /\ csc_written = <<AckCmd("openM1Cover", "CMD_COMPLETE")>>
    /\ csc._open_m1_covers_task.at = "pending"
    /\ csc._close_m1_covers_task.at = "cancelling"
    /\ CoversSettled("INMOTION")

----------------------------------------------------------------------------
(* C26: In ATPneumaticsCsc, an open (or close) command received while a    *)
(* transition of the same actuator group in the same direction is already  *)
(* in flight is accepted but has no effect: no new task is started, the    *)
(* running timer is not restarted, no additional in-motion event is        *)
(* produced, and exactly one settled event follows; and the same command   *)
(* received after the group has settled in that direction produces no new  *)
(* state-change event.                                                     *)

\* The step is the handler of this command, run in state ENABLED.
Accepted(command) == csc_written' = <<AckCmd(command, "CMD_COMPLETE")>>

\* The events the step writes.
EventsWritten == { i \in 1 .. Len(csc_written') : csc_written'[i].id # "ackcmd" }

C26_SameDirectionNoEffect ==
    [][ /\ (Accepted("openM1Cover") /\ Running(csc, "_open_m1_covers_task")) => csc' = csc
        /\ (Accepted("closeM1Cover") /\ Running(csc, "_close_m1_covers_task")) => csc' = csc
        /\ (Accepted("openM1CellVents") /\ Running(csc, "_open_cell_vents_task")) => csc' = csc
        /\ (Accepted("closeM1CellVents") /\ Running(csc, "_close_cell_vents_task")) => csc' = csc
        /\ \A task \in TaskNames :
              Completes(task) =>
                 \A i, j \in EventsWritten :
                    csc_written'[i].id = csc_written'[j].id => i = j
        /\ (Completes("_open_m1_covers_task") /\ ~CoversSettled("OPENED")) =>
              Cardinality({ i \in EventsWritten : csc_written'[i] =
                  [id |-> "evt_m1CoverState", state |-> "OPENED"] }) = 1
        /\ (Completes("_close_m1_covers_task") /\ ~CoversSettled("CLOSED")) =>
              Cardinality({ i \in EventsWritten : csc_written'[i] =
                  [id |-> "evt_m1CoverState", state |-> "CLOSED"] }) = 1
        /\ (Completes("_open_cell_vents_task") /\ ~VentsSettled("OPENED")) =>
              Cardinality({ i \in EventsWritten : csc_written'[i] =
                  [id |-> "evt_cellVentsState", state |-> "OPENED"] }) = 1
        /\ (Completes("_close_cell_vents_task") /\ ~VentsSettled("CLOSED")) =>
              Cardinality({ i \in EventsWritten : csc_written'[i] =
                  [id |-> "evt_cellVentsState", state |-> "CLOSED"] }) = 1
        /\ \A command \in {"openM1Cover", "closeM1Cover", "openM1CellVents",
                           "closeM1CellVents"} :
              Accepted(command) => EventsWritten = {}
        /\ (Completes("_open_m1_covers_task") /\ CoversSettled("OPENED")) =>
              EventsWritten = {}
        /\ (Completes("_close_m1_covers_task") /\ CoversSettled("CLOSED")) =>
              EventsWritten = {}
        /\ (Completes("_open_cell_vents_task") /\ VentsSettled("OPENED")) =>
              EventsWritten = {}
        /\ (Completes("_close_cell_vents_task") /\ VentsSettled("CLOSED")) =>
              EventsWritten = {}
      ]_vars

\* openM1CellVents has been accepted while the opening task had slept its
\* whole time: the task is as it was.
C26_Witness ==
    /\ csc_written = <<AckCmd("openM1CellVents", "CMD_COMPLETE")>>
    /\ csc._open_cell_vents_task = Task("sleeping", csc.cell_vents_open_time)
    /\ csc.evt_cellVentsState = <<[state |-> "INMOTION"]>>

----------------------------------------------------------------------------
(* C27: Timing bound: for every open/close transition of covers or vents    *)
(* that emits an in-motion event, the settled event is emitted no earlier   *)
(* than the configured transition time after the in-motion event (at least  *)
(* the configured number of ticks elapse between the two), and the measured *)
(* gap is within 0.3 s of the configured time.  The in-motion events are    *)
(* written by the step that suspends the handler, the settled events by the *)
(* step that resumes it, and slept is the number of ticks between the two.  *)

\* 0.3 s in ticks of one second: the gap is the configured number of ticks.
ToleranceTicks == 0

\* The step resumes a suspended handler, which writes its settled events.
WakeStep == pc \in SleepLabels /\ pc' = "idle" /\ cmd_evt_connected'

C27_SettledAfterTransitionTime ==
    [][ WakeStep =>
          /\ slept >= SleepTimes(sim)[pc]
          /\ slept - SleepTimes(sim)[pc] <= ToleranceTicks
          /\ SleepTimes(sim)[pc] - slept <= ToleranceTicks
      ]_vars

----------------------------------------------------------------------------
(* C28: In PneumaticsSimulator, in every state reachable through           *)
(* connections and commands, a close command accepted while the actuator    *)
(* group's OpenCloseState is OPEN sets the state to CLOSING, writes the     *)
(* in-motion events (all limit switches false; covers INMOTION / vents      *)
(* PARTIALLYOPENED) before anything else, then waits the configured close   *)
(* time, and only then writes the closed-settled events and sets the state  *)
(* CLOSED; symmetrically for an open command accepted in state CLOSED with  *)
(* the open time.                                                          *)

\* The payload is this command, valid and with the sequence id s expects.
AcceptedCommand(d, s, name) ==
    /\ ValidCommand(d)
    /\ NextInSequence(d, s)
    /\ d.id[1].name = name

\* What each handler writes after its sleep.
SettledAfterSleep(sequence_id) ==
    [ close_m1_cell_vents_sleep |-> Tail(CloseVentsSettledOnly(sequence_id)),
      close_m1_cover_sleep      |-> Tail(CloseCoverSettledOnly(sequence_id)),
      open_m1_cell_vents_sleep  |-> OpenVentsSettled(sequence_id),
      open_m1_cover_sleep       |-> OpenCoverSettled(sequence_id) ]

C28_TransitionMovesThenSettles ==
    [][ /\ ReadStep =>
             LET d == data'[1]
             IN  /\ (AcceptedCommand(d, sim, "closeM1Cover")
                        /\ sim.m1_covers_state = "OPEN") =>
                       /\ sim'.m1_covers_state = "CLOSING"
                       /\ cmd_evt_written' = OpenCoverInMotion(d.sequence_id[1])
                       /\ pc' = "close_m1_cover_sleep"
                 /\ (AcceptedCommand(d, sim, "closeM1CellVents")
                        /\ sim.m1_vents_state = "OPEN") =>
                       /\ sim'.m1_vents_state = "CLOSING"
                       /\ cmd_evt_written' = OpenVentsInMotion(d.sequence_id[1])
                       /\ pc' = "close_m1_cell_vents_sleep"
                 /\ (AcceptedCommand(d, sim, "openM1Cover")
                        /\ sim.m1_covers_state = "CLOSED") =>
                       /\ sim'.m1_covers_state = "OPENING"
                       /\ cmd_evt_written' = OpenCoverInMotion(d.sequence_id[1])
                       /\ pc' = "open_m1_cover_sleep"
                 /\ (AcceptedCommand(d, sim, "openM1CellVents")
                        /\ sim.m1_vents_state = "CLOSED") =>
                       /\ sim'.m1_vents_state = "OPENING"
                       /\ cmd_evt_written' = OpenVentsInMotion(d.sequence_id[1])
                       /\ pc' = "open_m1_cell_vents_sleep"
        /\ WakeStep =>
             /\ slept >= SleepTimes(sim)[pc]
             /\ cmd_evt_written' =
                   cmd_evt_written \o SettledAfterSleep(data[1].sequence_id[1])[pc]
             /\ pc = "close_m1_cover_sleep" => sim'.m1_covers_state = "CLOSED"
             /\ pc = "close_m1_cell_vents_sleep" => sim'.m1_vents_state = "CLOSED"
             /\ pc = "open_m1_cover_sleep" => sim'.m1_covers_state = "OPEN"
             /\ pc = "open_m1_cell_vents_sleep" => sim'.m1_vents_state = "OPEN"
      ]_vars

----------------------------------------------------------------------------
(* C29: In PneumaticsSimulator, whenever no cover (resp. vent) command      *)
(* handler is executing, the internal OpenCloseState agrees with the        *)
(* reported state, after any sequence of connects, disconnects and          *)
(* commands: m1_covers_state = OPEN iff m1_cover_state = OPENED and         *)
(* m1_covers_state = CLOSED iff m1_cover_state = CLOSED; m1_vents_state =   *)
(* OPEN iff m1_vents_position = OPENED and m1_vents_state = CLOSED iff      *)
(* m1_vents_position = CLOSED.                                             *)

CoversAgree(s) ==
    /\ s.m1_covers_state = "OPEN" <=> s.m1_cover_state = "OPENED"
    /\ s.m1_covers_state = "CLOSED" <=> s.m1_cover_state = "CLOSED"

VentsAgree(s) ==
    /\ s.m1_vents_state = "OPEN" <=> s.m1_vents_position = "OPENED"
    /\ s.m1_vents_state = "CLOSED" <=> s.m1_vents_position = "CLOSED"

C29_InternalAgreesWithReported ==
    /\ pc \notin {"close_m1_cover_sleep", "open_m1_cover_sleep"} => CoversAgree(sim)
    /\ pc \notin {"close_m1_cell_vents_sleep", "open_m1_cell_vents_sleep"} => VentsAgree(sim)

----------------------------------------------------------------------------
(* C30: In every reachable state of PneumaticsSimulator, last_sequence_id   *)
(* equals the sequence id of the most recently ACKed command (0 if no       *)
(* command has been ACKed): the counter advances only when a command is     *)
(* accepted, and never as a side effect of a command that is answered with  *)
(* NOACK for any reason (bad sequence, unknown id, schema validation        *)
(* failure).  The counter is 0 at construction, so it is the id of the last *)
(* ACK if every step that answers ACK sets it to the id of the ACK and no   *)
(* other step changes it.                                                  *)

\* The step answers a payload with this kind of response.
Answers(kind) ==
    /\ ReadStep
    /\ \E i \in 1 .. Len(cmd_evt_written') : cmd_evt_written'[i].id = kind

C30_CounterIsLastAck ==
    [][ /\ Answers(Ack.ACK) => sim'.last_sequence_id = data'[1].sequence_id[1]
        /\ Answers(Ack.NOACK) => sim'.last_sequence_id = sim.last_sequence_id
        /\ sim'.last_sequence_id # sim.last_sequence_id => Answers(Ack.ACK)
      ]_vars

----------------------------------------------------------------------------
(* C31: Command handling in PneumaticsSimulator is strictly serial on a     *)
(* connection: the next command is not read until the current command's     *)
(* handler has returned, so between a command's ACK and its SUCCESS no      *)
(* acknowledgment (ACK, NOACK, SUCCESS) of any other command is written,    *)
(* and a command sent while a timed cover or vent transition is in flight   *)
(* gets no response until that transition has settled.                     *)

\* The acknowledgments among these messages that are not for this sequence id.
OtherAcks(written, sequence_id) ==
    { i \in 1 .. Len(written) :
        /\ written[i].id \in {Ack.ACK, Ack.NOACK, Ack.SUCCESS, Ack.FAIL}
        /\ written[i].sequence_id # sequence_id }

C31_SerialCommandHandling ==
    [][ /\ pc \in SleepLabels =>
             /\ data' = data
             /\ kwargs.sequence_id = data[1].sequence_id
             /\ inbox' # inbox =>
                   (inbox = <<>> /\ pc' = pc /\ cmd_evt_written' = cmd_evt_written)
             /\ cmd_evt_written' # cmd_evt_written =>
                   /\ pc' = "idle"
                   /\ inbox' = inbox
                   /\ cmd_evt_written'[Len(cmd_evt_written')] =
                         Response(Ack.SUCCESS, data[1].sequence_id[1])
             /\ OtherAcks(cmd_evt_written', data[1].sequence_id[1]) = {}
        /\ ReadStep =>
             /\ pc = "idle"
             /\ data'[1].sequence_id # <<>> =>
                   OtherAcks(cmd_evt_written', data'[1].sequence_id[1]) = {}
             /\ inbox # <<>> => data' = <<Head(inbox)>>
      ]_vars

\* A payload written while openM1Cover was suspended is still unread when
\* the handler has answered SUCCESS.
C31_Witness ==
    /\ pc = "idle"
    /\ inbox # <<>>
    /\ data # NoData
    /\ data[1].id = <<Id("cmd_", "openM1Cover")>>
    /\ Len(cmd_evt_written) = 6
    /\ cmd_evt_written[6] = Response(Ack.SUCCESS, data[1].sequence_id[1])

----------------------------------------------------------------------------
(* C32: In ATPneumaticsCsc, for each actuator group (M1 covers, cell vents) *)
(* and after any sequence of open and close commands, at most one of the    *)
(* group's two transition tasks is running (not done and not cancelled) at  *)
(* any time: starting a transition in one direction first cancels the       *)
(* opposite-direction task, and no command is ever dropped because a        *)
(* cancelled task of its own direction is still counted as running.         *)

\* The commands with the task each starts and the task each cancels.
Transitions ==
    { <<"openM1Cover", "_open_m1_covers_task", "_close_m1_covers_task">>,
      <<"closeM1Cover", "_close_m1_covers_task", "_open_m1_covers_task">>,
      <<"openM1CellVents", "_open_cell_vents_task", "_close_cell_vents_task">>,
      <<"closeM1CellVents", "_close_cell_vents_task", "_open_cell_vents_task">> }

\* At most one task of each group is running.
OneRunning(c) ==
    \A t \in Transitions : ~(Running(c, t[2]) /\ Running(c, t[3]))

\* A command that starts a task leaves the task of the other direction
\* cancelled or done.
CancelsOpposite ==
    \A t \in Transitions :
       (Accepted(t[1]) /\ csc[t[2]].at = "done" /\ csc'[t[2]].at = "pending") =>
          ~Running(csc', t[3])

\* The command leaves a task of its direction running: the one that was, or
\* the one it starts.
NeverDropped ==
    \A t \in Transitions : Accepted(t[1]) => Running(csc', t[2])

C32_OneTaskPerGroup ==
    [][OneRunning(csc') /\ CancelsOpposite /\ NeverDropped]_vars

----------------------------------------------------------------------------
(* C33: Liveness of transitions: under fair scheduling, with finite         *)
(* transition times and the command connection staying open, every cover or *)
(* vent transition that is started and not cancelled eventually settles: an *)
(* OpenCloseState of OPENING leads to OPEN and CLOSING leads to CLOSED, the *)
(* settled events are written, and the simulator never stays in INMOTION /  *)
(* PARTIALLYOPENED forever.                                                *)

\* The handler has returned and its settled events are the last it wrote
\* before SUCCESS.
SettledWritten(label) ==
    /\ pc = "idle"
    /\ data # NoData
    /\ LET settled == SettledAfterSleep(data[1].sequence_id[1])[label]
           n == Len(cmd_evt_written)
       IN  /\ n >= Len(settled)
           /\ SubSeq(cmd_evt_written, n - Len(settled) + 1, n) = settled

C33_TransitionsSettle ==
    /\ sim.m1_covers_state = "OPENING" ~>
          (sim.m1_covers_state = "OPEN" /\ SettledWritten("open_m1_cover_sleep"))
    /\ sim.m1_covers_state = "CLOSING" ~>
          (sim.m1_covers_state = "CLOSED" /\ SettledWritten("close_m1_cover_sleep"))
    /\ sim.m1_vents_state = "OPENING" ~>
          (sim.m1_vents_state = "OPEN" /\ SettledWritten("open_m1_cell_vents_sleep"))
    /\ sim.m1_vents_state = "CLOSING" ~>
          (sim.m1_vents_state = "CLOSED" /\ SettledWritten("close_m1_cell_vents_sleep"))
    /\ sim.m1_cover_state = "INMOTION" ~> sim.m1_cover_state \in {"OPENED", "CLOSED"}
    /\ sim.m1_vents_position = "PARTIALLYOPENED" ~>
          sim.m1_vents_position \in {"OPENED", "CLOSED"}

\* closeM1Cover has slept its configured time of two ticks and has settled.
C33_Witness ==
    /\ sim.m1_covers_close_time = 2
    /\ slept = 2
    /\ sim.m1_covers_state = "CLOSED"
    /\ SettledWritten("close_m1_cover_sleep")

----------------------------------------------------------------------------
(* C34: With a configured transition time of zero, a PneumaticsSimulator    *)
(* open or close command that changes the actuator position still writes    *)
(* the in-motion events first and only afterwards the settled events, then  *)
(* SUCCESS; the in-motion step is never skipped because the time is zero.   *)
(* A command changes the position when the step that reads it changes the   *)
(* reported position: that step writes ACK and the in-motion events and     *)
(* suspends the handler, and the step that resumes it adds the settled      *)
(* events and SUCCESS.                                                     *)

\* What each handler has written when it is suspended in its sleep.
InMotionBeforeSleep(sequence_id) ==
    [ close_m1_cell_vents_sleep |-> OpenVentsInMotion(sequence_id),
      close_m1_cover_sleep      |-> OpenCoverInMotion(sequence_id),
      open_m1_cell_vents_sleep  |-> OpenVentsInMotion(sequence_id),
      open_m1_cover_sleep       |-> OpenCoverInMotion(sequence_id) ]

\* The sleep of the handler of each command.
SleepOf ==
    [ closeM1CellVents |-> "close_m1_cell_vents_sleep",
      closeM1Cover     |-> "close_m1_cover_sleep",
      openM1CellVents  |-> "open_m1_cell_vents_sleep",
      openM1Cover      |-> "open_m1_cover_sleep" ]

\* The step changes the reported position of the covers or of the vents.
PositionChanges ==
    \/ sim'.m1_cover_state # sim.m1_cover_state
    \/ sim'.m1_vents_position # sim.m1_vents_position

C34_ZeroTimeStillMoves ==
    [][ /\ ReadStep =>
             LET d == data'[1]
             IN  \A name \in TimedNames :
                   ( /\ AcceptedCommand(d, sim, name)
                     /\ SleepTimes(sim)[SleepOf[name]] = 0
                     /\ PositionChanges ) =>
                       /\ pc' = SleepOf[name]
                       /\ cmd_evt_written' = InMotionBeforeSleep(d.sequence_id[1])[pc']
                       /\ sim'.m1_cover_state \in {sim.m1_cover_state, "INMOTION"}
                       /\ sim'.m1_vents_position \in {sim.m1_vents_position, "PARTIALLYOPENED"}
        /\ (WakeStep /\ SleepTimes(sim)[pc] = 0) =>
             LET sequence_id == data[1].sequence_id[1]
             IN  /\ cmd_evt_written = InMotionBeforeSleep(sequence_id)[pc]
                 /\ cmd_evt_written' =
                       cmd_evt_written \o SettledAfterSleep(sequence_id)[pc]
                 /\ cmd_evt_written'[Len(cmd_evt_written')] =
                       Response(Ack.SUCCESS, sequence_id)
      ]_vars

\* openM1Cover with an open time of zero has written the in-motion events,
\* the settled events and SUCCESS, and no time has passed.
C34_Witness ==
    /\ sim.m1_covers_open_time = 0
    /\ pc = "idle"
    /\ slept = 0
    /\ data # NoData
    /\ data[1].id[1].name = "openM1Cover"
    /\ cmd_evt_written = OpenCoverInMotion(data[1].sequence_id[1])
                            \o OpenCoverSettled(data[1].sequence_id[1])
    /\ sim.m1_cover_state = "OPENED"

----------------------------------------------------------------------------
(* C35: In PneumaticsSimulator at most one telemetry loop task is active at *)
(* any time, for every sequence of telemetry-client connect and disconnect  *)
(* callbacks: a connect starts a loop only if none is running, a disconnect *)
(* cancels the running one, and two loops never write telemetry             *)
(* concurrently.                                                           *)
C35_OneTelemetryLoop ==
    [][ /\ telemetry_loops' <= 1
        /\ (~tel_connected /\ tel_connected') =>
             telemetry_loops' = IF telemetry_loops = 0 THEN 1 ELSE telemetry_loops
        /\ (tel_connected /\ ~tel_connected') => telemetry_loops' = 0
        /\ TelWriteStep =>
             /\ telemetry_loops = 1
             /\ Len(tel_written') = Len(tel_written) + 4
      ]_vars

\* One loop is alive for the connected telemetry client and has written two
\* passes, the second reporting a set pressure of 35 that the first did not.
C35_Witness ==
    /\ tel_connected
    /\ telemetry_loops = 1
    /\ _telemetry_task = "running"
    /\ Len(tel_written) = 8
    /\ tel_written[1].pressure = 0
    /\ tel_written[5].pressure = 35

----------------------------------------------------------------------------
(* C36: In ATPneumaticsCsc at most one telemetry_loop coroutine is active   *)
(* (looping, including while it sleeps between ticks) at any time, for      *)
(* every sequence of summary-state transitions among STANDBY, DISABLED and  *)
(* ENABLED, including transitions that occur faster than                    *)
(* telemetry_interval; and a telemetry loop is active whenever the summary  *)
(* state is ENABLED and none is active otherwise once its current sleep     *)
(* ends.  A loop that has been created is given its first step before it is *)
(* looked for, and outside ENABLED no loop starts to sleep.                 *)

\* The telemetry loops that are looping: in their sleep or with it over.
Active(c) == c.telemetry_loops.sleeping + c.telemetry_loops.woken

C36_OneTelemetryLoop ==
    [][ /\ Active(csc') <= 1
        /\ (csc'.summary_state = "ENABLED" /\ csc'.telemetry_loops.pending = 0) =>
              Active(csc') >= 1
        /\ csc.summary_state # "ENABLED" =>
              csc'.telemetry_loops.sleeping <= csc.telemetry_loops.sleeping
      ]_vars

----------------------------------------------------------------------------
(* C37: PneumaticsSimulator and ATPneumaticsCsc, run side by side on the    *)
(* same valve and set-pressure commands with the same configuration, report *)
(* the same m1AirPressure, m2AirPressure, loadCell and                      *)
(* mainAirSourcePressure on every tick; and on both mainAirSourcePressure   *)
(* is the configured main pressure while the main valve is OPENED and 0     *)
(* while it is CLOSED.                                                      *)

\* A tick on which both report telemetry.
BothReport == pair_tick /\ csc.summary_state = "ENABLED"

C37_SameTelemetry ==
    [][ BothReport =>
          /\ tel_written'[1].id = Telemetry.M1_AIR_PRESSURE
          /\ tel_written'[1].pressure = csc'.tel_m1AirPressure[1].pressure
          /\ tel_written'[2].id = Telemetry.M2_AIR_PRESSURE
          /\ tel_written'[2].pressure = csc'.tel_m2AirPressure[1].pressure
          /\ tel_written'[3].id = Telemetry.MAIN_AIR_SOURCE_PRESSURE
          /\ tel_written'[3].pressure = csc'.tel_mainAirSourcePressure[1].pressure
          /\ tel_written'[4].id = Telemetry.LOAD_CELL
          /\ tel_written'[4].cellLoad = csc'.tel_loadCell[1].cellLoad
          /\ tel_written'[3].pressure =
                IF sim.main_valve_state = "OPENED" THEN DEFAULT_MAIN_PRESSURE ELSE 0
          /\ csc'.tel_mainAirSourcePressure[1].pressure =
                IF csc.evt_mainValveState[1].state = "OPENED" THEN DEFAULT_MAIN_PRESSURE
                ELSE 0
      ]_vars

====
